---- MODULE Spec2Model ----
(***************************************************************************)
(* Model of the backlog generator of agile-planner-mcp: the schema of a    *)
(* backlog, its validation with Ajv 8 (allErrors), the adapter around the  *)
(* chat-completion provider and the bounded generation-validation loop of  *)
(* generateBacklog.                                                        *)
(*                                                                         *)
(* JavaScript values are tagged records: the tag t is what typeof / Ajv's  *)
(* type check sees.  A string is a tuple of characters, a text that is     *)
(* only concatenated and searched is a tuple of tokens.                    *)
(***************************************************************************)
EXTENDS Integers, Sequences, FiniteSets, TLC

(***************************************************************************)
(* JSON values                                                             *)
(***************************************************************************)
JStr(chars) == [t |-> "string", s |-> chars]
JArr(items) == [t |-> "array", a |-> items]
JObj(fields) == [t |-> "object", f |-> fields]
JNull == [t |-> "null"]

\* Ajv's data type check (checkDataType): "object" excludes arrays and null.
HasType(data, type) == data.t = type

HasProp(data, key) == key \in DOMAIN data.f

(***************************************************************************)
(* Sequence helpers                                                        *)
(***************************************************************************)
\* Array.prototype.join over texts: the separator between consecutive parts
RECURSIVE Join(_, _)
Join(parts, sep) ==
  IF parts = <<>> THEN <<>>
  ELSE IF Len(parts) = 1 THEN Head(parts)
  ELSE Head(parts) \o sep \o Join(Tail(parts), sep)

\* String.prototype.includes on token texts
Includes(text, sub) ==
  \E i \in 0..(Len(text) - Len(sub)) :
    \A j \in 1..Len(sub) : text[i + j] = sub[j]

(***************************************************************************)
(* createBacklogSchema                                                     *)
(***************************************************************************)
Digits == {"0", "1", "2", "3", "4", "5", "6", "7", "8", "9"}

\* the pattern "^US\d{3}$": its source text and its atoms between ^ and $
IdPattern ==
  [src |-> "^US\\d{3}$", atoms |-> <<"U", "S", "\\d", "\\d", "\\d">>]

mvpMinItems == 3
mvpMaxItems == 5
iterationsMinItems == 2
iterationsMaxItems == 3
storiesMinItems == 1
criteriaMinItems == 2
tasksMinItems == 2

userStorySchema ==
  [type |-> "object",
   required |-> <<"id", "title", "description", "acceptance_criteria",
                  "tasks", "priority">>,
   properties |-> <<
     <<"id", [type |-> "string", pattern |-> IdPattern]>>,
     <<"title", [type |-> "string"]>>,
     <<"description", [type |-> "string"]>>,
     <<"acceptance_criteria",
       [type |-> "array", minItems |-> criteriaMinItems,
        items |-> [type |-> "string"]]>>,
     <<"tasks",
       [type |-> "array", minItems |-> tasksMinItems,
        items |-> [type |-> "string"]]>>,
     <<"priority", [enum |-> <<JStr(<<"HIGH">>), JStr(<<"MEDIUM">>),
                               JStr(<<"LOW">>)>>]>> >>]

epicSchema ==
  [type |-> "object",
   required |-> <<"title", "description">>,
   properties |-> << <<"title", [type |-> "string"]>>,
                     <<"description", [type |-> "string"]>> >>]

mvpSchema ==
  [type |-> "array", minItems |-> mvpMinItems, maxItems |-> mvpMaxItems,
   items |-> userStorySchema]

\* iterations[].stories: its items are the mvp items, by reference
storiesSchema ==
  [type |-> "array", minItems |-> storiesMinItems,
   items |-> [ref |-> <<"properties", "mvp", "items">>]]

iterationSchema(stories) ==
  [type |-> "object",
   required |-> <<"name", "goal", "stories">>,
   properties |-> << <<"name", [type |-> "string"]>>,
                     <<"goal", [type |-> "string"]>>,
                     <<"stories", stories>> >>]

iterationsSchema(stories) ==
  [type |-> "array", minItems |-> iterationsMinItems,
   maxItems |-> iterationsMaxItems,
   items |-> iterationSchema(stories)]

backlogSchemaOf(required, epic, mvp, iterations) ==
  [type |-> "object",
   required |-> required,
   properties |-> << <<"epic", epic>>, <<"mvp", mvp>>,
                     <<"iterations", iterations>> >>]

\* variant: `iterations` is not required
createBacklogSchemaIterationsOptional ==
  backlogSchemaOf(<<"epic", "mvp">>, epicSchema, mvpSchema,
                  iterationsSchema(storiesSchema))

\* variant: no upper bound on mvp
createBacklogSchemaNoMvpMax ==
  backlogSchemaOf(<<"epic", "mvp", "iterations">>, epicSchema,
                  [type |-> "array", minItems |-> mvpMinItems,
                   items |-> userStorySchema],
                  iterationsSchema(storiesSchema))

\* variant: the id of a story is any string
createBacklogSchemaAnyId ==
  backlogSchemaOf(<<"epic", "mvp", "iterations">>, epicSchema,
                  [mvpSchema EXCEPT !.items.properties[1][2] = [type |-> "string"]],
                  iterationsSchema(storiesSchema))

\* variant: the stories of an iteration have their own, looser item schema
createBacklogSchemaOwnStories ==
  backlogSchemaOf(<<"epic", "mvp", "iterations">>, epicSchema, mvpSchema,
                  iterationsSchema([type |-> "array",
                                    minItems |-> storiesMinItems,
                                    items |-> [type |-> "object"]]))

createBacklogSchema ==
  backlogSchemaOf(<<"epic", "mvp", "iterations">>, epicSchema, mvpSchema,
                  iterationsSchema(storiesSchema))

(***************************************************************************)
(* Ajv 8, compiled with allErrors                                          *)
(***************************************************************************)
Has(schema, keyword) == keyword \in DOMAIN schema

\* the subschema of a `properties` list under a name
PropSchema(props, name) ==
  LET i == CHOOSE k \in 1..Len(props) : props[k][1] = name IN props[i][2]

\* resolution of a local reference "#/a/b/..." against the root schema
RECURSIVE ResolveRef(_, _)
ResolveRef(schema, ptr) ==
  IF ptr = <<>> THEN schema
  ELSE IF Head(ptr) = "properties"
    THEN ResolveRef(PropSchema(schema.properties, ptr[2]), Tail(Tail(ptr)))
  ELSE IF Head(ptr) = "items" THEN ResolveRef(schema.items, Tail(ptr))
  ELSE schema

\* RegExp.prototype.test for an anchored pattern of single-character atoms
MatchesPattern(chars, pattern) ==
  /\ Len(chars) = Len(pattern.atoms)
  /\ \A i \in 1..Len(chars) :
       IF pattern.atoms[i] = "\\d" THEN chars[i] \in Digits
       ELSE chars[i] = pattern.atoms[i]

AjvError(path, keyword, message) ==
  [instancePath |-> path, keyword |-> keyword, message |-> message]

RECURSIVE AjvErrors(_, _, _, _)
RECURSIVE ItemErrors(_, _, _, _, _)
RECURSIVE PropErrors(_, _, _, _, _)

\* keyword `items`: every element, in index order (instance path /<index>)
ItemErrors(root, schema, items, path, i) ==
  IF i > Len(items) THEN <<>>
  ELSE AjvErrors(root, schema, items[i], path \o <<"/", ToString(i - 1)>>)
       \o ItemErrors(root, schema, items, path, i + 1)

\* keyword `properties`: every listed property the data has, in schema order
PropErrors(root, props, data, path, i) ==
  IF i > Len(props) THEN <<>>
  ELSE (IF HasProp(data, props[i][1])
          THEN AjvErrors(root, props[i][2], data.f[props[i][1]],
                         path \o <<"/", props[i][1]>>)
          ELSE <<>>)
       \o PropErrors(root, props, data, path, i + 1)

RequiredErrors(required, data, path) ==
  LET missing == SelectSeq(required, LAMBDA k : ~HasProp(data, k))
  IN [i \in 1..Len(missing) |->
        AjvError(path, "required",
                 <<"must have required property '", missing[i], "'">>)]

\* the errors of one (sub)schema on one value, in the order Ajv reports them:
\* untyped keywords (enum), then the group of the declared type (string:
\* pattern; array: maxItems, minItems, items; object: required, properties),
\* or the type error when the value has another type.
AjvErrors(root, schema, data, path) ==
  IF Has(schema, "ref")
    THEN AjvErrors(root, ResolveRef(root, schema.ref), data, path)
  ELSE
    LET enumErrs ==
          IF Has(schema, "enum")
               /\ ~\E i \in 1..Len(schema.enum) : data = schema.enum[i]
            THEN <<AjvError(path, "enum",
                     <<"must be equal to one of the allowed values">>)>>
            ELSE <<>>
        stringErrs ==
          IF Has(schema, "pattern") /\ ~MatchesPattern(data.s, schema.pattern)
            THEN <<AjvError(path, "pattern",
                     <<"must match pattern \"", schema.pattern.src, "\"">>)>>
            ELSE <<>>
        arrayErrs ==
          (IF Has(schema, "maxItems") /\ Len(data.a) > schema.maxItems
             THEN <<AjvError(path, "maxItems",
                      <<"must NOT have more than ", ToString(schema.maxItems),
                        " items">>)>>
             ELSE <<>>)
          \o (IF Has(schema, "minItems") /\ Len(data.a) < schema.minItems
                THEN <<AjvError(path, "minItems",
                         <<"must NOT have fewer than ",
                           ToString(schema.minItems), " items">>)>>
                ELSE <<>>)
          \o (IF Has(schema, "items")
                THEN ItemErrors(root, schema.items, data.a, path, 1)
                ELSE <<>>)
        objectErrs ==
          (IF Has(schema, "required")
             THEN RequiredErrors(schema.required, data, path)
             ELSE <<>>)
          \o (IF Has(schema, "properties")
                THEN PropErrors(root, schema.properties, data, path, 1)
                ELSE <<>>)
        typedErrs ==
          IF ~Has(schema, "type") THEN <<>>
          ELSE IF ~HasType(data, schema.type)
            THEN <<AjvError(path, "type", <<"must be ", schema.type>>)>>
          ELSE IF schema.type = "string" THEN stringErrs
          ELSE IF schema.type = "array" THEN arrayErrs
          ELSE IF schema.type = "object" THEN objectErrs
          ELSE <<>>
    IN enumErrs \o typedErrs

\* validate(data) of a compiled validator: the errors it leaves in
\* validate.errors; it returns true exactly when there are none
validatorErrors(validate, data) ==
  AjvErrors(validate.schema, validate.schema, data, <<>>)

\* ajv.compile(schema): the validator closes over the schema it was given;
\* its `errors` property is null until a call leaves errors in it
ajvCompile(schema) == [schema |-> schema, errors |-> JNull]

\* variant: the errors of a call are added to those of the calls before
validatorCallAccumulates(validate, data) ==
  LET errors == validatorErrors(validate, data)
      before == IF validate.errors = JNull THEN <<>> ELSE validate.errors.a
  IN [validate EXCEPT !.errors = IF before \o errors = <<>> THEN JNull
                                  ELSE JArr(before \o errors)]

\* the validator after validate(data): validate.errors is null when the
\* data is valid and a fresh array of this call's errors when it is not
validatorCall(validate, data) ==
  LET errors == validatorErrors(validate, data)
  IN [validate EXCEPT !.errors = IF errors = <<>> THEN JNull
                                  ELSE JArr(errors)]

(***************************************************************************)
(* JavaScript values of the arguments and of the provider's answers        *)
(***************************************************************************)
Undefined == [t |-> "undefined"]

TypeofObject(v) == v.t \in {"object", "array", "null"}

Truthy(v) ==
  /\ v.t \notin {"undefined", "null"}
  /\ (v.t = "string" => v.s /= <<>>)
  /\ (v.t = "boolean" => v.b)
  /\ (v.t = "number" => v.n /= 0)

\* the text a template literal `${v}` produces
TemplateText(v) ==
  IF v.t = "string" THEN v.s
  ELSE IF v.t = "undefined" THEN <<"undefined">>
  ELSE IF v.t = "null" THEN <<"null">>
  ELSE <<"[object Object]">>

Error(message) == [message |-> message]

Thrown(error) == [thrown |-> TRUE, error |-> error]

Returned(value) == [thrown |-> FALSE, value |-> value]

\* JSON.parse of the text of the function call's arguments: a text either
\* denotes a JSON value or is malformed and raises a SyntaxError
JSONparse(text) ==
  IF text.wellFormed THEN Returned(text.denotes)
  ELSE Thrown(Error(text.syntaxError))

JsonText(value) == [wellFormed |-> TRUE, denotes |-> value]

Malformed == [wellFormed |-> FALSE,
              syntaxError |-> <<"Unexpected end of JSON input">>]

(***************************************************************************)
(* initializeClient, determineModel, createApiMessages                     *)
(***************************************************************************)
OpenAIBaseURL == JStr(<<"https://api.", "openai.com", "/v1">>)
GroqBaseURL == JStr(<<"https://api.", "groq.com", "/openai/v1">>)

\* new OpenAI({apiKey, baseURL}): the SDK's default base address when none
\* is given; chat stands for client.chat.completions.create
OpenAIClient(apiKey, baseURL) ==
  [t |-> "object", apiKey |-> apiKey,
   baseURL |-> IF baseURL = Undefined THEN OpenAIBaseURL ELSE baseURL,
   chat |-> [t |-> "object"]]

\* variant: the secondary key is looked at first
initializeClientPrefersGroq(openaiKey, groqKey) ==
  IF Truthy(groqKey) THEN Returned(OpenAIClient(groqKey, GroqBaseURL))
  ELSE IF Truthy(openaiKey) THEN Returned(OpenAIClient(openaiKey, Undefined))
  ELSE Thrown(Error(<<"No API key provided for OpenAI or GROQ">>))

initializeClient(openaiKey, groqKey) ==
  IF Truthy(openaiKey) THEN Returned(OpenAIClient(openaiKey, Undefined))
  ELSE IF Truthy(groqKey) THEN Returned(OpenAIClient(groqKey, GroqBaseURL))
  ELSE Thrown(Error(<<"No API key provided for OpenAI or GROQ">>))

\* v.name of a value that is neither undefined nor null: undefined when the
\* value has no such property
Prop(v, name) == IF name \in DOMAIN v THEN v[name] ELSE Undefined

determineModel(client) ==
  LET baseURL == Prop(client, "baseURL")
  IN IF baseURL = Undefined THEN Returned("gpt-4.1")
     ELSE IF baseURL.t /= "string"
       THEN Thrown(Error(<<"client.baseURL.includes is not a function">>))
     ELSE IF Includes(baseURL.s, <<"openai.com">>) THEN Returned("gpt-4.1")
     ELSE Returned("llama3-70b-8192")

SystemRoleText ==
  <<"You are an expert agile product owner. Generate a detailed agile backlog as a valid JSON object strictly following the given JSON schema and structure. Include all required fields and respect all constraints.">>

SystemShapeText ==
  <<"Le backlog doit comporter :\n- Un objet 'epic' (titre, description)\n- Un tableau 'mvp' (3 à 5 user stories complètes avec id, title, description, acceptance_criteria, tasks, priority)\n- Un tableau 'iterations' (2 à 3 itérations, chaque itération a un nom, un goal, et des stories conformes au schéma user story).\nRespecte strictement ce format. N'invente pas de champs en plus.\nProduce a valid JSON that I can use directly.">>

\* variant: the user turn leaves the description out
createApiMessagesWithoutDescription(project) ==
  << [role |-> "system", content |-> SystemRoleText],
     [role |-> "user", content |-> <<"Project description: ">>],
     [role |-> "system", content |-> SystemShapeText] >>

createApiMessages(project) ==
  << [role |-> "system", content |-> SystemRoleText],
     [role |-> "user", content |-> <<"Project description: ">> \o project],
     [role |-> "system", content |-> SystemShapeText] >>

(***************************************************************************)
(* callApiForBacklog                                                       *)
(***************************************************************************)
NoChoicesMessage == <<"Réponse API invalide: aucun choix retourné">>

maxTokens == 8192

\* variant: a retry falls back to the model of the secondary endpoint
CompletionRequestFallbackModel(model, messages, backlogSchema) ==
  [model |-> IF Len(messages) > 3 THEN "llama3-70b-8192" ELSE model,
   messages |-> messages,
   temperature |-> "0.7",
   functions |-> << [name |-> "deliver_backlog",
                     description |-> "Renvoie un backlog agile structuré en JSON",
                     parameters |-> backlogSchema] >>,
   function_call |-> [name |-> "deliver_backlog"],
   max_tokens |-> maxTokens]

\* the argument of client.chat.completions.create
CompletionRequest(model, messages, backlogSchema) ==
  [model |-> model,
   messages |-> messages,
   temperature |-> "0.7",
   functions |-> << [name |-> "deliver_backlog",
                     description |-> "Renvoie un backlog agile structuré en JSON",
                     parameters |-> backlogSchema] >>,
   function_call |-> [name |-> "deliver_backlog"],
   max_tokens |-> maxTokens]

\* variant: the request goes out a second time
createCompletionTwice(st) ==
  LET request == CompletionRequest(st.model, st.messages, st.backlogSchema)
  IN [st EXCEPT !.outstanding = @ + 1,
                !.sent = Append(Append(@, request), request)]

\* callApiForBacklog up to its await: client.chat.completions.create(...)
\* sends one request
createCompletion(st) ==
  LET request == CompletionRequest(st.model, st.messages, st.backlogSchema)
  IN [st EXCEPT !.outstanding = @ + 1, !.sent = Append(@, request)]

\* variant: every error is turned into a returned failure
callApiCatchReturnsAll(error) ==
  Returned([valid |-> FALSE,
            error |-> IF Has(error, "message") THEN error.message ELSE <<>>])

\* variant: no error is turned into a returned failure
callApiCatchRethrows(error) == Thrown(error)

\* the catch clause of callApiForBacklog
callApiCatch(error) ==
  IF Has(error, "message") /\ error.message = NoChoicesMessage
    THEN Returned([valid |-> FALSE, error |-> error.message])
    ELSE Thrown(error)

\* variant: a first choice without message counts as one without function
\* call (choices[0].message?.function_call)
callApiTryOptionalMessage(outcome) ==
  IF outcome.kind = "throw" THEN Thrown(outcome.error)
  ELSE
    LET completion == outcome.completion IN
    IF ~Has(completion, "choices") \/ Len(completion.choices) = 0
      THEN Thrown(Error(NoChoicesMessage))
    ELSE IF \/ ~Has(completion.choices[1], "message")
            \/ ~Has(completion.choices[1].message, "function_call")
      THEN Returned([valid |-> FALSE,
                     error |-> <<"Aucun appel de fonction retourné par l'API">>])
    ELSE
      LET functionCall == completion.choices[1].message.function_call
          parsed == JSONparse(functionCall.arguments)
      IN IF parsed.thrown
           THEN Returned([valid |-> FALSE,
                          error |-> <<"Erreur de parsing JSON: ">>
                                      \o parsed.error.message])
           ELSE Returned([valid |-> TRUE, data |-> parsed.value,
                          functionCall |-> functionCall])

\* the try block of callApiForBacklog once the provider has answered:
\* outcome is what `await client.chat.completions.create(...)` produced
callApiTry(outcome) ==
  IF outcome.kind = "throw" THEN Thrown(outcome.error)
  ELSE
    LET completion == outcome.completion IN
    IF ~Has(completion, "choices") \/ Len(completion.choices) = 0
      THEN Thrown(Error(NoChoicesMessage))
    ELSE IF ~Has(completion.choices[1], "message")
      THEN Thrown(Error(<<"Cannot read properties of undefined (reading 'function_call')">>))
    ELSE IF ~Has(completion.choices[1].message, "function_call")
      THEN Returned([valid |-> FALSE,
                     error |-> <<"Aucun appel de fonction retourné par l'API">>])
    ELSE
      LET functionCall == completion.choices[1].message.function_call
          parsed == JSONparse(functionCall.arguments)
      IN IF parsed.thrown
           THEN Returned([valid |-> FALSE,
                          error |-> <<"Erreur de parsing JSON: ">>
                                      \o parsed.error.message])
           ELSE Returned([valid |-> TRUE, data |-> parsed.value,
                          functionCall |-> functionCall])

\* callApiForBacklog from the provider's answer on: its result or what it throws
callApiForBacklog(outcome) ==
  LET r == callApiTry(outcome)
  IN IF r.thrown THEN callApiCatch(r.error) ELSE r

(***************************************************************************)
(* validateBacklog, processBacklogParams                                   *)
(***************************************************************************)
\* variant: the violation without the place it was found at
ErrorLineMessageOnly(e) == e.message

\* `${e.instancePath} ${e.message}`
ErrorLine(e) == e.instancePath \o <<" ">> \o e.message

\* variant: the validator's verdict is not consulted
validateBacklogAcceptsAll(backlog, validator) == [valid |-> TRUE]

validateBacklog(backlog, validator) ==
  LET called == validatorCall(validator, backlog)
      valid == called.errors = JNull
  IN IF ~valid
       THEN LET errors == called.errors.a
            IN [valid |-> FALSE, errors |-> errors,
                errorMsg |->
                  Join([i \in 1..Len(errors) |-> ErrorLine(errors[i])],
                       <<"; ">>)]
       ELSE [valid |-> TRUE]

ClientUndefinedMessage == <<"Client API non défini">>

\* variant: the two-argument order (project, client) is not recognised
processBacklogParamsNoLegacy(projectName, projectDescription, client) ==
  IF ~Truthy(client)
    THEN [valid |-> FALSE, error |-> [message |-> ClientUndefinedMessage]]
    ELSE [valid |-> TRUE,
          project |-> TemplateText(projectName) \o <<": ">>
                        \o TemplateText(projectDescription),
          client |-> client]

\* variant: the description stands in for a missing client whatever its type
processBacklogParamsAlwaysLegacy(projectName, projectDescription, client) ==
  LET legacy == ~Truthy(client)
      theClient == IF legacy THEN projectDescription ELSE client
      description == IF legacy THEN JStr(<<>>) ELSE projectDescription
  IN IF ~Truthy(theClient)
       THEN [valid |-> FALSE, error |-> [message |-> ClientUndefinedMessage]]
       ELSE [valid |-> TRUE,
             project |-> TemplateText(projectName) \o <<": ">>
                           \o TemplateText(description),
             client |-> theClient]

processBacklogParams(projectName, projectDescription, client) ==
  LET legacy == TypeofObject(projectDescription) /\ ~Truthy(client)
      theClient == IF legacy THEN projectDescription ELSE client
      description == IF legacy THEN JStr(<<>>) ELSE projectDescription
  IN IF ~Truthy(theClient)
       THEN [valid |-> FALSE, error |-> [message |-> ClientUndefinedMessage]]
       ELSE [valid |-> TRUE,
             project |-> TemplateText(projectName) \o <<": ">>
                           \o TemplateText(description),
             client |-> theClient]

(***************************************************************************)
(* The state of one generateBacklog call                                   *)
(*   pc            "called" (not yet run), "awaiting" (a provider call is  *)
(*                 outstanding), "resolved" (the promise is resolved)      *)
(*   messages, attempt, lastValidationErrors                               *)
(*                 the locals of attemptBacklogGeneration                  *)
(*   sent          the request of every provider call, as it was when sent *)
(*   responses     what every provider call produced                       *)
(*   adapterCalls  invocations of callApiForBacklog                        *)
(*   outstanding   provider calls issued and not yet answered              *)
(*   resolved      the envelopes passed to resolve, in order               *)
(***************************************************************************)
maxTries == 3

NewGeneration(projectName, projectDescription, client) ==
  [pc |-> "called",
   projectName |-> projectName,
   projectDescription |-> projectDescription,
   client |-> client,
   apiClient |-> Undefined,
   model |-> "",
   backlogSchema |-> <<>>,
   validate |-> <<>>,
   messages |-> <<>>,
   attempt |-> 0,
   lastValidationErrors |-> JNull,
   sent |-> <<>>,
   responses |-> <<>>,
   adapterCalls |-> 0,
   outstanding |-> 0,
   resolved |-> <<>>]

\* resolve(envelope) of the promise generateBacklog returns
Resolve(st, envelope) ==
  [st EXCEPT !.pc = "resolved", !.resolved = Append(@, envelope)]

GenericCatchMessage ==
  <<"Une erreur est survenue lors de la génération du backlog">>

\* variant: no fallback for an exception without a message
CatchMessageNoFallback(error) ==
  IF Has(error, "message") THEN error.message ELSE <<>>

\* variant: the exception's own message is dropped
CatchMessageGeneric(error) == GenericCatchMessage

\* error?.message || '...' in the catch clause of processBacklog
CatchMessage(error) ==
  IF Has(error, "message") /\ error.message /= <<>> THEN error.message
  ELSE GenericCatchMessage

\* variant: the exception is thrown on, the promise is never resolved
generateBacklogCatchRethrows(st, error) == [st EXCEPT !.pc = "rejected"]

\* the catch clause of processBacklog, the recovery boundary
generateBacklogCatch(st, error) ==
  Resolve(st, [success |-> FALSE, error |-> [message |-> CatchMessage(error)]])

GenericExhaustionMessage == <<"Validation du backlog échouée">>

\* variant: the violation is reported with its instance path
ExhaustionMessageWithPath(lastValidationErrors) ==
  IF lastValidationErrors.t = "array" /\ Len(lastValidationErrors.a) > 0
    THEN (IF Has(lastValidationErrors.a[1], "instancePath")
            THEN lastValidationErrors.a[1].instancePath \o <<" ">>
            ELSE <<>>)
         \o lastValidationErrors.a[1].message
    ELSE GenericExhaustionMessage

\* generationResult.lastValidationErrors?.[0]?.message || '...'
ExhaustionMessage(lastValidationErrors) ==
  IF /\ lastValidationErrors.t = "array"
     /\ Len(lastValidationErrors.a) > 0
     /\ Has(lastValidationErrors.a[1], "message")
     /\ lastValidationErrors.a[1].message /= <<>>
    THEN lastValidationErrors.a[1].message
    ELSE GenericExhaustionMessage

\* generateBacklog after attemptBacklogGeneration has returned
generateBacklogFinish(st, generationResult) ==
  IF generationResult.success
    THEN Resolve(st, [success |-> TRUE, result |-> generationResult.result])
    ELSE Resolve(st, [success |-> FALSE,
                      error |-> [message |->
                        ExhaustionMessage(generationResult.lastValidationErrors)]])

(***************************************************************************)
(* attemptBacklogGeneration                                                *)
(***************************************************************************)
\* variant: one iteration too many
LoopConditionOffByOne(attempt) == attempt <= maxTries + 1

\* the condition of the for loop
LoopCondition(attempt) == attempt <= maxTries

\* variant: a returned failure leaves an empty list of errors
TransportFailureEmpty(apiResult) == JArr(<<>>)

\* lastValidationErrors after callApiForBacklog returned valid:false
TransportFailure(apiResult) == JArr(<<[message |-> apiResult.error]>>)

\* variant: only the corrective system turn is pushed
CorrectiveTurnsSystemOnly(apiResult, validationResult) ==
  << [role |-> "system",
      content |-> <<"La réponse JSON n'est pas valide : ">>
                    \o validationResult.errorMsg
                    \o <<". Merci de ne renvoyer que le JSON conforme via deliver_backlog.">>] >>

\* the two turns pushed after a schema failure
CorrectiveTurns(apiResult, validationResult) ==
  << [role |-> "assistant", content |-> JNull,
      function_call |-> apiResult.functionCall],
     [role |-> "system",
      content |-> <<"La réponse JSON n'est pas valide : ">>
                    \o validationResult.errorMsg
                    \o <<". Merci de ne renvoyer que le JSON conforme via deliver_backlog.">>] >>

\* variant: callApiForBacklog is not awaited, the next call goes out as well
attemptLoopNoAwait(st) ==
  IF LoopCondition(st.attempt)
    THEN [createCompletion(createCompletion(st)) EXCEPT
            !.pc = "awaiting",
            !.adapterCalls = @ + 2,
            !.attempt = @ + 1]
    ELSE generateBacklogFinish(st,
           [success |-> FALSE, lastValidationErrors |-> st.lastValidationErrors])

\* the loop from its head: the next call of callApiForBacklog up to its
\* await of the provider, or the return after the last attempt
attemptLoop(st) ==
  IF LoopCondition(st.attempt)
    THEN IF Prop(st.apiClient, "chat") = Undefined
      THEN generateBacklogCatch(
             [st EXCEPT !.adapterCalls = @ + 1],
             Error(<<"Cannot read properties of undefined (reading 'completions')">>))
      ELSE [createCompletion(st) EXCEPT
              !.pc = "awaiting",
              !.adapterCalls = @ + 1]
    ELSE generateBacklogFinish(st,
           [success |-> FALSE, lastValidationErrors |-> st.lastValidationErrors])

\* variant: a transport failure is fed back to the model as well
OnTransportFailureWithFeedback(st, apiResult) ==
  attemptLoop([st EXCEPT
    !.lastValidationErrors = TransportFailure(apiResult),
    !.messages = Append(@, [role |-> "system", content |-> apiResult.error]),
    !.attempt = @ + 1])

\* variant: a transport failure does not replace the recorded failure
OnTransportFailureKeepsLast(st, apiResult) ==
  attemptLoop([st EXCEPT
    !.lastValidationErrors =
      IF @ = JNull THEN TransportFailure(apiResult) ELSE @,
    !.attempt = @ + 1])

\* if (!apiResult.valid) { lastValidationErrors = ...; continue; }
OnTransportFailure(st, apiResult) ==
  attemptLoop([st EXCEPT
    !.lastValidationErrors = TransportFailure(apiResult),
    !.attempt = @ + 1])

\* variant: a validated backlog does not leave the loop before the last attempt
OnValidatedContinues(st, apiResult) ==
  IF st.attempt < maxTries
    THEN attemptLoop([st EXCEPT !.attempt = @ + 1])
    ELSE generateBacklogFinish(st,
           [success |-> TRUE, result |-> apiResult.data,
            lastValidationErrors |-> JNull])

\* the ids of a sequence of stories, and whether one occurs twice
IdsOf(stories) == [i \in 1..Len(stories) |-> stories[i].f.id]
Repeats(ids) == \E i, j \in 1..Len(ids) : i < j /\ ids[i] = ids[j]
MvpIds(backlog) == IdsOf(backlog.f.mvp.a)
IterationIds(backlog) ==
  Join([i \in 1..Len(backlog.f.iterations.a) |->
          IdsOf(backlog.f.iterations.a[i].f.stories.a)], <<>>)
SharesAnId(backlog) == Repeats(MvpIds(backlog) \o IterationIds(backlog))

\* variant: a validated backlog in which two stories share an id is a failed
\* attempt
OnValidatedUniqueIds(st, apiResult) ==
  IF SharesAnId(apiResult.data)
    THEN attemptLoop([st EXCEPT
           !.lastValidationErrors = JArr(<<[message |-> <<"duplicate id">>]>>),
           !.attempt = @ + 1])
    ELSE generateBacklogFinish(st,
           [success |-> TRUE, result |-> apiResult.data,
            lastValidationErrors |-> JNull])

\* if (validationResult.valid) return {success: true, ...}
OnValidated(st, apiResult) ==
  generateBacklogFinish(st,
    [success |-> TRUE, result |-> apiResult.data,
     lastValidationErrors |-> JNull])

\* variant: a schema failure costs two attempts
OnSchemaFailureSkips(st, apiResult, validationResult) ==
  attemptLoop([st EXCEPT
    !.lastValidationErrors = JArr(validationResult.errors),
    !.messages = @ \o CorrectiveTurns(apiResult, validationResult),
    !.attempt = @ + 2])

\* variant: the conversation is rebuilt from its first three turns
OnSchemaFailureRestarts(st, apiResult, validationResult) ==
  attemptLoop([st EXCEPT
    !.lastValidationErrors = JArr(validationResult.errors),
    !.messages = SubSeq(@, 1, 3) \o CorrectiveTurns(apiResult, validationResult),
    !.attempt = @ + 1])

\* the rest of the body after a schema failure, and the next iteration
OnSchemaFailure(st, apiResult, validationResult) ==
  attemptLoop([st EXCEPT
    !.lastValidationErrors = JArr(validationResult.errors),
    !.messages = @ \o CorrectiveTurns(apiResult, validationResult),
    !.attempt = @ + 1])

\* the body of the loop from the provider's answer to the next await
attemptBody(st, outcome) ==
  LET answered == [st EXCEPT !.outstanding = @ - 1,
                             !.responses = Append(@, outcome)]
      call == callApiForBacklog(outcome)
  IN IF call.thrown THEN generateBacklogCatch(answered, call.error)
     ELSE IF ~call.value.valid THEN OnTransportFailure(answered, call.value)
     ELSE
       LET validationResult ==
             validateBacklog(call.value.data, st.validate)
           validated ==
             [answered EXCEPT !.validate = validatorCall(@, call.value.data)]
       IN IF validationResult.valid
            THEN OnValidated(validated, call.value)
            ELSE OnSchemaFailure(validated, call.value, validationResult)

(***************************************************************************)
(* generateBacklog                                                         *)
(***************************************************************************)
\* processBacklog up to the first await
generateBacklogStart(st) ==
  LET paramsResult ==
        processBacklogParams(st.projectName, st.projectDescription, st.client)
  IN IF ~paramsResult.valid
       THEN Resolve(st, [success |-> FALSE,
                         error |-> [message |-> paramsResult.error.message]])
     ELSE
       LET model == determineModel(paramsResult.client)
           prepared == [st EXCEPT
                          !.apiClient = paramsResult.client,
                          !.backlogSchema = createBacklogSchema,
                          !.validate = ajvCompile(createBacklogSchema),
                          !.messages = createApiMessages(paramsResult.project)]
       IN IF model.thrown THEN generateBacklogCatch(prepared, model.error)
          ELSE attemptLoop([prepared EXCEPT !.model = model.value,
                                            !.attempt = 1])

(***************************************************************************)
(* What the provider may answer                                            *)
(***************************************************************************)
MaxMvpLen == 3

StoryId(n) == <<"U", "S", "0", "0", ToString(n)>>

Story(n) ==
  JObj([id |-> JStr(StoryId(n)),
        title |-> JStr(<<"t">>),
        description |-> JStr(<<"d">>),
        acceptance_criteria |-> JArr(<<JStr(<<"a">>), JStr(<<"b">>)>>),
        tasks |-> JArr(<<JStr(<<"x">>), JStr(<<"y">>)>>),
        priority |-> JStr(<<"HIGH">>)])

Epic == JObj([title |-> JStr(<<"e">>), description |-> JStr(<<"d">>)])

Iteration(n) ==
  JObj([name |-> JStr(<<"i">>), goal |-> JStr(<<"g">>),
        stories |-> JArr(<<Story(n)>>)])

Backlog(mvpLen, iterLen) ==
  JObj([epic |-> Epic,
        mvp |-> JArr([n \in 1..mvpLen |-> Story(n)]),
        iterations |-> JArr([n \in 1..iterLen |-> Iteration(n)])])

\* the legacy shape: `epics` (a sequence) in place of `epic`
EpicsBacklog ==
  JObj([epics |-> JArr(<<Epic>>),
        mvp |-> JArr([n \in 1..3 |-> Story(n)]),
        iterations |-> JArr([n \in 1..2 |-> Iteration(n)])])

NoIterationsBacklog ==
  JObj([epic |-> Epic, mvp |-> JArr([n \in 1..3 |-> Story(n)])])

\* a backlog whose mvp holds the same story, hence the same id, twice
DuplicateIdBacklog ==
  JObj([epic |-> Epic,
        mvp |-> JArr(<<Story(1), Story(1), Story(2)>>),
        iterations |-> JArr(<<Iteration(3), Iteration(4)>>)])

\* a backlog whose epic has the empty string as title or as description
EmptyEpicBacklog(field) ==
  JObj([epic |-> JObj([Epic.f EXCEPT ![field] = JStr(<<>>)]),
        mvp |-> JArr([n \in 1..3 |-> Story(n)]),
        iterations |-> JArr([n \in 1..2 |-> Iteration(n + 3)])])

\* a backlog with two violations: no epic, and an mvp of one story
TwoViolationsBacklog ==
  JObj([mvp |-> JArr(<<Story(1)>>),
        iterations |-> JArr([n \in 1..2 |-> Iteration(n)])])

Documents ==
  {Backlog(m, 2) : m \in 1..MaxMvpLen}
    \cup {EpicsBacklog, NoIterationsBacklog, JNull, DuplicateIdBacklog,
          TwoViolationsBacklog}
    \cup {EmptyEpicBacklog(field) : field \in {"title", "description"}}

FunctionCall(text) == [name |-> "deliver_backlog", arguments |-> text]

Completion(message) == [id |-> "cmpl", choices |-> <<[index |-> 0, message |-> message]>>]

Outcomes ==
  {[kind |-> "throw", error |-> Error(m)] :
     m \in {<<"Connection error.">>, NoChoicesMessage, <<>>}}
  \cup
  {[kind |-> "completion", completion |-> c] :
     c \in {[id |-> "cmpl"],
            [id |-> "cmpl", choices |-> <<>>],
            [id |-> "cmpl", choices |-> <<[index |-> 0]>>],
            Completion([role |-> "assistant", content |-> <<"text">>]),
            Completion([role |-> "assistant", content |-> JNull,
                        function_call |-> FunctionCall(Malformed)])}}
  \cup
  {[kind |-> "completion",
    completion |-> Completion([role |-> "assistant", content |-> JNull,
                               function_call |-> FunctionCall(JsonText(d))])] :
     d \in Documents}

(***************************************************************************)
(* The arguments of a call of generateBacklog                              *)
(***************************************************************************)
\* a test double: chat.completions.create and nothing else
StubClient == [t |-> "object", chat |-> [t |-> "object"]]
\* a client whose baseURL is not a string
BadBaseClient ==
  [t |-> "object", baseURL |-> [t |-> "number", n |-> 1],
   chat |-> [t |-> "object"]]
\* an object that is no client: it has no chat property
NoChatClient == [t |-> "object"]

Clients ==
  {Undefined, JNull,
   initializeClient(JStr(<<"sk-1">>), Undefined).value,
   initializeClient(Undefined, JStr(<<"gsk-1">>)).value,
   StubClient, BadBaseClient, NoChatClient}

ProjectNames == {JStr(<<"Shop">>)}

Descriptions == {JStr(<<"An online shop">>), Undefined, JNull, StubClient}

\* gen: the calls of generateBacklog; check: a validator and the backlogs
\* handed to validateBacklog with it, one after the other
\* boot: the keys of the environment and the client initializeClient makes
\* of them
\* md: a call of generateMarkdownFilesFromResult and the calls of fs-extra
\* it has awaited
VARIABLES gen, check, boot, md

vars == <<gen, check, boot, md>>

\* the renderer is not called
NoRender == [pc |-> "none"]

\* no client is built from keys: the caller brings its own
NoBoot == [pc |-> "none"]

\* no validation outside the generations
NoCheck ==
  [params |-> [kind |-> "none"], inputs |-> <<>>,
   validator |-> ajvCompile(createBacklogSchema), results |-> <<>>]

\* one call of generateBacklog, not yet run
Init ==
  \E n \in ProjectNames, d \in Descriptions, c \in Clients :
    /\ gen = [g \in {1} |-> NewGeneration(n, d, c)]
    /\ check = NoCheck
    /\ boot = NoBoot
    /\ md = NoRender

\* the executor of the promise runs processBacklog up to its first await
Start(g) ==
  /\ gen[g].pc = "called"
  /\ gen' = [gen EXCEPT ![g] = generateBacklogStart(gen[g])]
  /\ UNCHANGED <<check, boot, md>>

\* variant: the messages are one list for all generations, so the generations
\* that are waiting see the turns this one has pushed
ResumeSharedMessages(g, outcome) ==
  LET resumed == attemptBody(gen[g], outcome)
  IN gen' = [h \in DOMAIN gen |->
               IF h = g THEN resumed
               ELSE IF gen[h].pc = "awaiting"
                 THEN [gen[h] EXCEPT !.messages = resumed.messages]
               ELSE gen[h]]

\* the continuation of generation g runs on the provider's answer: only the
\* locals of that call of generateBacklog change
Resume(g, outcome) ==
  gen' = [gen EXCEPT ![g] = attemptBody(gen[g], outcome)]

\* the provider answers the outstanding call and the loop runs on to its
\* next await or to the resolution of the promise
Complete(g) ==
  /\ gen[g].pc = "awaiting"
  /\ \E outcome \in Outcomes : Resume(g, outcome)
  /\ UNCHANGED <<check, boot, md>>

Next == \E g \in DOMAIN gen : Start(g) \/ Complete(g)

Spec == Init /\ [][Next]_vars

(***************************************************************************)
(* Vocabulary of the properties                                            *)
(***************************************************************************)
Envelope(st) == st.resolved[1]

\* what callApiForBacklog made of a provider answer
AdapterThrows(o) == callApiForBacklog(o).thrown
TransportFails(o) == ~AdapterThrows(o) /\ ~callApiForBacklog(o).value.valid
Usable(o) == ~AdapterThrows(o) /\ callApiForBacklog(o).value.valid
DataOf(o) == callApiForBacklog(o).value.data
RawCallOf(o) == o.completion.choices[1].message.function_call

SchemaErrors(data) == AjvErrors(createBacklogSchema, createBacklogSchema, data, <<>>)
SchemaValid(o) == Usable(o) /\ SchemaErrors(DataOf(o)) = <<>>
SchemaInvalid(o) == Usable(o) /\ SchemaErrors(DataOf(o)) /= <<>>
Fails(o) == TransportFails(o) \/ SchemaInvalid(o)

AllFail(st) == \A i \in 1..Len(st.responses) : Fails(st.responses[i])

\* C1: a success envelope carries a result the backlog schema accepts
SuccessResultConforms ==
  \A g \in DOMAIN gen : \A i \in 1..Len(gen[g].resolved) :
    gen[g].resolved[i].success =>
      /\ Has(gen[g].resolved[i], "result")
      /\ SchemaErrors(gen[g].resolved[i].result) = <<>>

SuccessAfterFailureReached ==
  \E g \in DOMAIN gen :
    /\ gen[g].pc = "resolved"
    /\ Envelope(gen[g]).success
    /\ Len(gen[g].responses) = 3
    /\ SchemaInvalid(gen[g].responses[1])
    /\ TransportFails(gen[g].responses[2])

\* C2: the adapter is invoked at most 3 times in a generation, and exactly
\* 3 times before the failure envelope when every attempt fails
AtMostThreeAdapterCalls ==
  \A g \in DOMAIN gen :
    /\ gen[g].adapterCalls <= 3
    /\ (gen[g].pc = "resolved" /\ gen[g].responses /= <<>> /\ AllFail(gen[g]))
         => /\ gen[g].adapterCalls = 3
            /\ Len(gen[g].responses) = 3
            /\ ~Envelope(gen[g]).success

AllFailingReached ==
  \E g \in DOMAIN gen :
    /\ gen[g].pc = "resolved"
    /\ gen[g].adapterCalls = 3
    /\ SchemaInvalid(gen[g].responses[1])
    /\ TransportFails(gen[g].responses[2])
    /\ SchemaInvalid(gen[g].responses[3])
    /\ ~Envelope(gen[g]).success

\* C3: a schema-valid response ends the loop: it is the last response, the
\* adapter was called exactly as often as its index, nothing is outstanding
\* and the envelope is success with that response's data
ValidationSuccessIsHardStop ==
  \A g \in DOMAIN gen : \A k \in 1..Len(gen[g].responses) :
    SchemaValid(gen[g].responses[k]) =>
      /\ k = Len(gen[g].responses)
      /\ gen[g].adapterCalls = k
      /\ Len(gen[g].sent) = k
      /\ gen[g].outstanding = 0
      /\ gen[g].pc = "resolved"
      /\ gen[g].resolved =
           <<[success |-> TRUE, result |-> DataOf(gen[g].responses[k])]>>

SecondAttemptValidReached ==
  \E g \in DOMAIN gen :
    /\ Len(gen[g].responses) = 2
    /\ SchemaInvalid(gen[g].responses[1])
    /\ SchemaValid(gen[g].responses[2])
    /\ gen[g].adapterCalls = 2

FirstAttemptValidReached ==
  \E g \in DOMAIN gen :
    /\ Len(gen[g].responses) = 1
    /\ SchemaValid(gen[g].responses[1])
    /\ gen[g].adapterCalls = 1

\* C4: after a schema failure of attempt k the next attempt is sent the
\* messages of attempt k, then an assistant turn echoing attempt k's raw
\* function call, then a corrective system turn
SchemaFailureAppendsTwoTurns ==
  \A g \in DOMAIN gen : \A k \in 1..(Len(gen[g].sent) - 1) :
    SchemaInvalid(gen[g].responses[k]) =>
      LET before == gen[g].sent[k].messages
          after == gen[g].sent[k + 1].messages
      IN /\ Len(after) = Len(before) + 2
         /\ SubSeq(after, 1, Len(before)) = before
         /\ after[Len(before) + 1].role = "assistant"
         /\ after[Len(before) + 1].function_call = RawCallOf(gen[g].responses[k])
         /\ after[Len(before) + 2].role = "system"

TwoSchemaFailuresReached ==
  \E g \in DOMAIN gen :
    /\ Len(gen[g].sent) = 3
    /\ SchemaInvalid(gen[g].responses[1])
    /\ SchemaInvalid(gen[g].responses[2])
    /\ DataOf(gen[g].responses[1]) /= DataOf(gen[g].responses[2])
    /\ Len(gen[g].sent[3].messages) = 7

\* C5: after a transport/parse failure of attempt k the next attempt is sent
\* exactly the messages of attempt k
TransportFailureKeepsMessages ==
  \A g \in DOMAIN gen : \A k \in 1..(Len(gen[g].sent) - 1) :
    TransportFails(gen[g].responses[k]) =>
      gen[g].sent[k + 1].messages = gen[g].sent[k].messages

TransportFailureAfterFeedbackReached ==
  \E g \in DOMAIN gen :
    /\ Len(gen[g].sent) = 3
    /\ SchemaInvalid(gen[g].responses[1])
    /\ TransportFails(gen[g].responses[2])
    /\ Len(gen[g].sent[3].messages) = 5

\* C6: a generation resolves at most once, is resolved exactly when it has
\* left its last await, and every envelope is either {success: true, result}
\* without error or {success: false, error: {message}} with a non-empty
\* message and without result
EnvelopeWellFormed(e) ==
  \/ /\ e.success
     /\ Has(e, "result") /\ e.result /= Undefined
     /\ ~Has(e, "error")
  \/ /\ ~e.success
     /\ Has(e, "error") /\ Has(e.error, "message") /\ e.error.message /= <<>>
     /\ ~Has(e, "result")

OneWellFormedEnvelope ==
  \A g \in DOMAIN gen :
    /\ Len(gen[g].resolved) <= 1
    /\ gen[g].pc \in {"called", "awaiting", "resolved"}
    /\ (gen[g].pc = "resolved") <=> (Len(gen[g].resolved) = 1)
    /\ (gen[g].pc = "awaiting") <=> (gen[g].outstanding = 1)
    /\ \A i \in 1..Len(gen[g].resolved) : EnvelopeWellFormed(gen[g].resolved[i])

MessagelessExceptionResolved ==
  \E g \in DOMAIN gen :
    /\ gen[g].pc = "resolved"
    /\ Len(gen[g].responses) = 2
    /\ gen[g].responses[2] = [kind |-> "throw", error |-> Error(<<>>)]
    /\ ~Envelope(gen[g]).success

\* C7: without a client (and without an object description standing in for
\* it) the envelope is the configuration error and the adapter is never invoked
NoClient(st) ==
  /\ ~Truthy(st.client)
  /\ ~(TypeofObject(st.projectDescription) /\ Truthy(st.projectDescription))

NoClientIsConfigurationError ==
  \A g \in DOMAIN gen :
    NoClient(gen[g]) =>
      /\ gen[g].adapterCalls = 0
      /\ gen[g].sent = <<>>
      /\ gen[g].pc \in {"called", "resolved"}
      /\ gen[g].pc = "resolved" =>
           gen[g].resolved =
             <<[success |-> FALSE,
                error |-> [message |-> <<"Client API non défini">>]]>>

NoClientResolved ==
  \E g \in DOMAIN gen :
    /\ gen[g].pc = "resolved"
    /\ gen[g].client = Undefined
    /\ gen[g].projectDescription.t = "string"

\* the exception that left the call chain of a generation, if any: thrown by
\* determineModel, by the call of the provider, or out of callApiForBacklog
ParamsOf(st) ==
  processBacklogParams(st.projectName, st.projectDescription, st.client)

ExceptionRaised(st) ==
  /\ st.pc /= "called"
  /\ ParamsOf(st).valid
  /\ \/ determineModel(ParamsOf(st).client).thrown
     \/ Prop(ParamsOf(st).client, "chat") = Undefined
     \/ st.responses /= <<>> /\ AdapterThrows(st.responses[Len(st.responses)])

RaisedError(st) ==
  IF determineModel(ParamsOf(st).client).thrown
    THEN determineModel(ParamsOf(st).client).error
  ELSE IF Prop(ParamsOf(st).client, "chat") = Undefined
    THEN Error(<<"Cannot read properties of undefined (reading 'completions')">>)
  ELSE callApiForBacklog(st.responses[Len(st.responses)]).error

FailureMessage(o) ==
  IF TransportFails(o) THEN callApiForBacklog(o).value.error
  ELSE SchemaErrors(DataOf(o))[1].message

\* C9: after three failed attempts the envelope reports the first message of
\* the failure of the third attempt
ExhaustionReportsLastFailure ==
  \A g \in DOMAIN gen :
    (gen[g].pc = "resolved" /\ Len(gen[g].responses) = 3 /\ AllFail(gen[g])) =>
      /\ FailureMessage(gen[g].responses[3]) /= <<>>
      /\ gen[g].resolved =
           <<[success |-> FALSE,
              error |-> [message |-> FailureMessage(gen[g].responses[3])]]>>

ExhaustedAfterDistinctFailures ==
  \E g \in DOMAIN gen :
    /\ gen[g].pc = "resolved"
    /\ Len(gen[g].responses) = 3
    /\ SchemaInvalid(gen[g].responses[1])
    /\ SchemaInvalid(gen[g].responses[2])
    /\ TransportFails(gen[g].responses[3])
    /\ FailureMessage(gen[g].responses[1]) /= FailureMessage(gen[g].responses[2])
    /\ FailureMessage(gen[g].responses[2]) /= FailureMessage(gen[g].responses[3])
    /\ ~Envelope(gen[g]).success

\* a backlog whose mvp has one story and which is conformant otherwise
MvpOfLengthOne(o) ==
  /\ Usable(o)
  /\ \E n \in iterationsMinItems..iterationsMaxItems : DataOf(o) = Backlog(1, n)

AlwaysMvpOfLengthOne(st) ==
  /\ st.pc = "resolved"
  /\ st.responses /= <<>>
  /\ \A i \in 1..Len(st.responses) : MvpOfLengthOne(st.responses[i])

\* C10 as stated: the message of the failure envelope mentions minItems or
\* the instance path of mvp
ScenarioCMessageMentionsMvp ==
  \A g \in DOMAIN gen :
    AlwaysMvpOfLengthOne(gen[g]) =>
      /\ ~Envelope(gen[g]).success
      /\ gen[g].adapterCalls = 3
      /\ \/ Includes(Envelope(gen[g]).error.message, <<"minItems">>)
         \/ Includes(Envelope(gen[g]).error.message, <<"/", "mvp">>)
         \/ Includes(Envelope(gen[g]).error.message, <<"mvp">>)

\* C10, amended: the failure envelope comes after exactly 3 adapter calls and
\* its message is the message alone of the first violation, the minItems
\* violation at /mvp: "must NOT have fewer than 3 items"
ScenarioCReportsMinItemsMessage ==
  \A g \in DOMAIN gen :
    AlwaysMvpOfLengthOne(gen[g]) =>
      /\ gen[g].adapterCalls = 3
      /\ Len(gen[g].responses) = 3
      /\ gen[g].lastValidationErrors.a[1].keyword = "minItems"
      /\ gen[g].lastValidationErrors.a[1].instancePath = <<"/", "mvp">>
      /\ gen[g].resolved =
           <<[success |-> FALSE,
              error |-> [message |->
                <<"must NOT have fewer than ", "3", " items">>]]>>

ScenarioCResolved ==
  \E g \in DOMAIN gen :
    /\ AlwaysMvpOfLengthOne(gen[g])
    /\ Len(gen[g].sent) = 3
    /\ Len(gen[g].sent[3].messages) = 7

(***************************************************************************)
(* Shapes of a backlog                                                     *)
(***************************************************************************)
RequiredMessage(name) == <<"must have required property '", name, "'">>

\* the error list holds a `required` violation that names the property
ReportsMissing(errors, name) ==
  \E i \in 1..Len(errors) :
    /\ errors[i].keyword = "required"
    /\ Includes(errors[i].message, <<name>>)

EpicsShape(data) ==
  /\ data.t = "object"
  /\ HasProp(data, "epics") /\ ~HasProp(data, "epic")
  /\ HasProp(data, "mvp") /\ HasProp(data, "iterations")

\* C11: a usable response in the epics shape (`epics`, no `epic`, otherwise
\* conformant) passes the validation step and makes the generation succeed
\* with it, as a response in the epic shape does
EpicsShapeIsAccepted ==
  \A g \in DOMAIN gen : \A k \in 1..Len(gen[g].responses) :
    (Usable(gen[g].responses[k]) /\ EpicsShape(DataOf(gen[g].responses[k])))
      => /\ gen[g].pc = "resolved"
         /\ Envelope(gen[g]).success
         /\ Envelope(gen[g]).result = DataOf(gen[g].responses[k])

\* what the loop does with the two shapes: a response in the epics shape is
\* a schema failure that names the missing `epic`, the generation does not
\* succeed on it, the two corrective turns follow while attempts remain, and
\* it is never the result of an envelope; the same backlog with `epic`
\* succeeds at once
OnlyEpicShapeIsAccepted ==
  \A g \in DOMAIN gen : \A k \in 1..Len(gen[g].responses) :
    LET st == gen[g]
        o == st.responses[k]
    IN /\ (Usable(o) /\ EpicsShape(DataOf(o))) =>
            /\ (st.pc = "resolved" => Envelope(st) /= [success |-> TRUE,
                                                       result |-> DataOf(o)])
            /\ (k = Len(st.responses) =>
                  /\ st.lastValidationErrors.t = "array"
                  /\ ReportsMissing(st.lastValidationErrors.a, "epic")
                  /\ st.validate.errors = st.lastValidationErrors)
            /\ (k < maxTries =>
                  /\ Len(st.sent) >= k + 1
                  /\ Len(st.sent[k + 1].messages) = Len(st.sent[k].messages) + 2
                  /\ Includes(st.sent[k + 1].messages[
                                Len(st.sent[k + 1].messages)].content,
                              RequiredMessage("epic")))
            /\ (k = maxTries =>
                  /\ st.pc = "resolved"
                  /\ Envelope(st) = [success |-> FALSE,
                                     error |-> [message |->
                                                  RequiredMessage("epic")]])
       /\ (Usable(o) /\ DataOf(o) = Backlog(3, 2)) =>
            /\ st.pc = "resolved"
            /\ Envelope(st) = [success |-> TRUE, result |-> Backlog(3, 2)]
            /\ Len(st.sent) = k

EpicsShapeOnEveryAttemptResolved ==
  \E g \in DOMAIN gen :
    /\ gen[g].pc = "resolved"
    /\ Len(gen[g].responses) = 3
    /\ \A k \in 1..3 : /\ Usable(gen[g].responses[k])
                       /\ DataOf(gen[g].responses[k]) = EpicsBacklog

(***************************************************************************)
(* validateBacklog on its own: one validator, compiled once from the       *)
(* schema, and a sequence of backlogs handed to it                         *)
(***************************************************************************)
MaxValMvpLen == 6
MaxValIterLen == 4
MaxStoriesLen == 2
MaxCriteria == 3
MaxTasks == 2
NumValidations == 2

JNum(n) == [t |-> "number", n |-> n]

RootFields == {"epic", "mvp", "iterations"}

\* the value under `epic`, or the legacy `epics` in its place
EpicPlacements ==
  {<<"epic", e>> :
     e \in {Epic,
            JObj([Epic.f EXCEPT !.title = JStr(<<>>)]),
            JObj([Epic.f EXCEPT !.description = JStr(<<>>)]),
            JObj([description |-> JStr(<<"d">>)]),
            JObj([Epic.f EXCEPT !.title = JNum(1)]),
            JStr(<<"e">>)}}
  \cup {<<"epics", JArr(<<Epic>>)>>}

\* the iterations of a backlog: the last one has storiesLen stories
IterationsOf(iterLen, storiesLen) ==
  [n \in 1..iterLen |->
     IF n < iterLen THEN Iteration(n)
     ELSE JObj([name |-> JStr(<<"i">>), goal |-> JStr(<<"g">>),
                stories |-> JArr([k \in 1..storiesLen |-> Story(k)])])]

BacklogParams ==
  [kind : {"backlog"}, epic : EpicPlacements, omit : SUBSET RootFields,
   mvpLen : 0..MaxValMvpLen, iterLen : 0..MaxValIterLen,
   storiesLen : 0..MaxStoriesLen]

BacklogOf(p) ==
  LET names == ({p.epic[1], "mvp", "iterations"}) \ p.omit
      value(k) ==
        IF k = "mvp" THEN JArr([n \in 1..p.mvpLen |-> Story(n)])
        ELSE IF k = "iterations"
          THEN JArr(IterationsOf(p.iterLen, p.storiesLen))
        ELSE p.epic[2]
  IN JObj([k \in names |-> value(k)])

StoryFields ==
  {"id", "title", "description", "acceptance_criteria", "tasks", "priority"}

IdCandidates ==
  {JStr(StoryId(1)), JStr(<<"U", "S", "0", "1">>),
   JStr(<<"U", "S", "0", "0", "0", "1">>), JStr(<<"u", "s", "0", "0", "1">>),
   JStr(<<"U", "S", "A", "0", "1">>), JNum(1)}

\* lists of 1 to maxLen strings, and a list with a number in it
ListCandidates(maxLen) ==
  {JArr([n \in 1..len |-> JStr(<<"a">>)]) : len \in 1..maxLen}
    \cup {JArr(<<JStr(<<"a">>), JNum(1)>>)}

PriorityCandidates ==
  {JStr(<<"HIGH">>), JStr(<<"MEDIUM">>), JStr(<<"LOW">>), JStr(<<"high">>)}

\* the fields a story has: all six, all six and dependencies, or all but one
FieldSets ==
  {StoryFields, StoryFields \cup {"dependencies"}}
    \cup {StoryFields \ {f} : f \in StoryFields}

TextCandidates ==
  {[title |-> JStr(<<"t">>), description |-> JStr(<<"d">>)],
   [title |-> JNum(1), description |-> JStr(<<"d">>)],
   [title |-> JStr(<<"t">>), description |-> JNull]}

StoryParams ==
  [kind : {"story"}, id : IdCandidates, text : TextCandidates,
   acceptance_criteria : ListCandidates(MaxCriteria),
   tasks : ListCandidates(MaxTasks), priority : PriorityCandidates,
   fields : FieldSets]

StoryOf(p) ==
  LET value(k) ==
        IF k = "title" THEN p.text.title
        ELSE IF k = "description" THEN p.text.description
        ELSE IF k = "dependencies" THEN JArr(<<JStr(StoryId(2))>>)
        ELSE p[k]
  IN JObj([k \in p.fields |-> value(k)])

\* a conformant backlog with the story as the first story of the mvp
InMvp(story) ==
  JObj([Backlog(3, 2).f EXCEPT !.mvp = JArr(<<story, Story(2), Story(3)>>)])

\* a conformant backlog with the story as the story of its first iteration
InIteration(story) ==
  JObj([Backlog(3, 2).f EXCEPT
          !.iterations =
             JArr(<<JObj([Iteration(1).f EXCEPT !.stories = JArr(<<story>>)]),
                    Iteration(2)>>)])

CheckParams == BacklogParams \cup StoryParams

\* the backlogs validated: the same backlog again and again, or the story
\* by turns in the mvp and in an iteration
InputsOf(p) ==
  [i \in 1..NumValidations |->
     IF p.kind = "backlog" THEN BacklogOf(p)
     ELSE IF i % 2 = 1 THEN InMvp(StoryOf(p))
     ELSE InIteration(StoryOf(p))]

NewCheck(p) ==
  [params |-> p, inputs |-> InputsOf(p),
   validator |-> ajvCompile(createBacklogSchema), results |-> <<>>]

InitV ==
  /\ gen = <<>>
  /\ boot = NoBoot
  /\ md = NoRender
  /\ \E p \in CheckParams : check = NewCheck(p)

\* validateBacklog(backlog, validator) on the next backlog
Validate ==
  /\ Len(check.results) < Len(check.inputs)
  /\ LET backlog == check.inputs[Len(check.results) + 1]
     IN check' = [check EXCEPT
                    !.results = Append(@, validateBacklog(backlog,
                                                          check.validator)),
                    !.validator = validatorCall(@, backlog)]
  /\ UNCHANGED <<gen, boot, md>>

NextV == Validate

SpecValidate == InitV /\ [][NextV]_vars

\* C12: a backlog (an object) that lacks one of epic, mvp, iterations is
\* reported invalid, with a non-empty list of violations in which a
\* `required` violation names the missing field
MissingRootFieldIsReported ==
  \A i \in 1..Len(check.results) : \A name \in RootFields :
    (check.inputs[i].t = "object" /\ ~HasProp(check.inputs[i], name)) =>
      /\ ~check.results[i].valid
      /\ check.results[i].errors /= <<>>
      /\ ReportsMissing(check.results[i].errors, name)
      /\ Includes(check.results[i].errorMsg, RequiredMessage(name))

TwoMissingRootFieldsValidated ==
  /\ check.params.kind = "backlog"
  /\ check.params.omit = {"mvp", "iterations"}
  /\ Len(check.results) >= 1
  /\ ~check.results[1].valid
  /\ Len(check.results[1].errors) = 2

\* the parts of a backlog outside its cardinalities are conformant
OtherwiseConformant(p) ==
  p.kind = "backlog" /\ p.epic = <<"epic", Epic>> /\ p.omit = {}

\* C13: an otherwise conformant backlog is accepted exactly when mvp has 3
\* to 5 stories, iterations has 2 to 3 entries and every iteration has at
\* least 1 story
CardinalitiesDecideAcceptance ==
  \A i \in 1..Len(check.results) :
    OtherwiseConformant(check.params) =>
      LET backlog == check.inputs[i]
          mvp == backlog.f.mvp.a
          iterations == backlog.f.iterations.a
      IN check.results[i].valid <=>
           /\ Len(mvp) >= 3 /\ Len(mvp) <= 5
           /\ Len(iterations) >= 2 /\ Len(iterations) <= 3
           /\ \A n \in 1..Len(iterations) :
                Len(iterations[n].f.stories.a) >= 1

SixStoryMvpRejected ==
  /\ OtherwiseConformant(check.params)
  /\ check.params.mvpLen = 6
  /\ check.params.iterLen = 2
  /\ check.params.storiesLen = 1
  /\ Len(check.results) >= 1
  /\ ~check.results[1].valid

IsStringList(v, atLeast) ==
  /\ v.t = "array"
  /\ Len(v.a) >= atLeast
  /\ \A i \in 1..Len(v.a) : v.a[i].t = "string"

IsStoryId(v) ==
  /\ v.t = "string"
  /\ Len(v.s) = 5
  /\ v.s[1] = "U" /\ v.s[2] = "S"
  /\ \A i \in 3..5 : v.s[i] \in Digits

\* the conditions C14 lists for a story
StoryConditions(story) ==
  /\ StoryFields \subseteq DOMAIN story.f
  /\ IsStoryId(story.f.id)
  /\ IsStringList(story.f.acceptance_criteria, 2)
  /\ IsStringList(story.f.tasks, 2)
  /\ story.f.priority \in {JStr(<<"HIGH">>), JStr(<<"MEDIUM">>), JStr(<<"LOW">>)}

\* the story the i-th validated backlog was built around
CandidateAt(i) ==
  IF i % 2 = 1 THEN check.inputs[i].f.mvp.a[1]
  ELSE check.inputs[i].f.iterations.a[1].f.stories.a[1]

\* C14 as stated: a story is accepted exactly when it has the six fields,
\* its id is US and three digits, acceptance_criteria and tasks are lists of
\* at least 2 strings and priority is HIGH, MEDIUM or LOW, with or without
\* dependencies
StoryAcceptedIffListedConditions ==
  \A i \in 1..Len(check.results) :
    check.params.kind = "story" =>
      (check.results[i].valid <=> StoryConditions(CandidateAt(i)))

\* C14: a story is accepted exactly when it meets the listed conditions and
\* its title and its description are strings
StoryAcceptedIffConditionsAndTexts ==
  \A i \in 1..Len(check.results) :
    check.params.kind = "story" =>
      (check.results[i].valid <=>
         /\ StoryConditions(CandidateAt(i))
         /\ CandidateAt(i).f.title.t = "string"
         /\ CandidateAt(i).f.description.t = "string")

StoryWithDependenciesAccepted ==
  /\ check.params.kind = "story"
  /\ Len(check.results) >= 1
  /\ HasProp(CandidateAt(1), "dependencies")
  /\ CandidateAt(1).f.priority = JStr(<<"LOW">>)
  /\ Len(CandidateAt(1).f.acceptance_criteria.a) = 3
  /\ check.results[1].valid

\* C15: a story is accepted as a story of the mvp exactly when it is accepted
\* as a story of an iteration
SameVerdictInMvpAndIteration ==
  (check.params.kind = "story" /\ Len(check.results) >= 2) =>
    /\ check.inputs[1] = InMvp(StoryOf(check.params))
    /\ check.inputs[2] = InIteration(StoryOf(check.params))
    /\ check.results[1].valid = check.results[2].valid

BadIdRejectedInBothPlaces ==
  /\ check.params.kind = "story"
  /\ check.params.id = JStr(<<"U", "S", "0", "1">>)
  /\ check.params.fields = StoryFields
  /\ Len(check.results) = 2
  /\ ~check.results[1].valid
  /\ ~check.results[2].valid
  /\ Len(check.results[2].errors) = 1
  /\ check.results[2].errors[1].keyword = "pattern"

HasEmptyEpicText(data) ==
  /\ data.t = "object" /\ HasProp(data, "epic")
  /\ data.f.epic.t = "object"
  /\ \E name \in {"title", "description"} :
       HasProp(data.f.epic, name) /\ data.f.epic.f[name] = JStr(<<>>)

\* C16: a backlog whose epic has the empty string as title or as description
\* is rejected by validation, so no generation succeeds with it
EmptyEpicTextIsRejected ==
  \A g \in DOMAIN gen : \A k \in 1..Len(gen[g].responses) :
    (Usable(gen[g].responses[k])
       /\ HasEmptyEpicText(DataOf(gen[g].responses[k])))
      => ~(/\ gen[g].pc = "resolved"
           /\ Envelope(gen[g]).success
           /\ Envelope(gen[g]).result = DataOf(gen[g].responses[k]))

\* what the loop does with such a backlog: the epic's title and description
\* only have to be strings, the validator leaves no error and the generation
\* succeeds with the backlog on that attempt
EmptyEpicTextIsAccepted ==
  \A g \in DOMAIN gen : \A k \in 1..Len(gen[g].responses) :
    (Usable(gen[g].responses[k])
       /\ DataOf(gen[g].responses[k])
            \in {EmptyEpicBacklog("title"), EmptyEpicBacklog("description")})
      => /\ HasEmptyEpicText(DataOf(gen[g].responses[k]))
         /\ k = Len(gen[g].responses)
         /\ gen[g].validate.errors = JNull
         /\ gen[g].pc = "resolved"
         /\ Envelope(gen[g]) = [success |-> TRUE,
                                result |-> DataOf(gen[g].responses[k])]

EmptyEpicTitleSucceeds ==
  \E g \in DOMAIN gen :
    /\ gen[g].pc = "resolved"
    /\ Envelope(gen[g]).success
    /\ Envelope(gen[g]).result = EmptyEpicBacklog("title")
    /\ Envelope(gen[g]).result.f.epic.f.title = JStr(<<>>)

\* C17: a conformant backlog in which two stories share an id, within mvp or
\* between mvp and an iteration, passes validation: the generation succeeds
\* with it on the attempt that returned it and no further attempt is made
DuplicateIdsAreAccepted ==
  /\ Repeats(MvpIds(DuplicateIdBacklog))
  /\ ~Repeats(MvpIds(Backlog(3, 2))) /\ SharesAnId(Backlog(3, 2))
  /\ \A g \in DOMAIN gen : \A k \in 1..Len(gen[g].responses) :
       (Usable(gen[g].responses[k])
          /\ DataOf(gen[g].responses[k]) \in {DuplicateIdBacklog, Backlog(3, 2)})
         => /\ gen[g].pc = "resolved"
            /\ Envelope(gen[g]) = [success |-> TRUE,
                                   result |-> DataOf(gen[g].responses[k])]
            /\ k = Len(gen[g].responses)
            /\ Len(gen[g].sent) = k
            /\ gen[g].adapterCalls = k
            /\ gen[g].outstanding = 0

DuplicateIdsInMvpSucceedFirst ==
  \E g \in DOMAIN gen :
    /\ gen[g].pc = "resolved"
    /\ Len(gen[g].responses) = 1
    /\ Usable(gen[g].responses[1])
    /\ DataOf(gen[g].responses[1]) = DuplicateIdBacklog
    /\ Envelope(gen[g]).success
    /\ Len(gen[g].sent) = 1

\* C18: validateBacklog is idempotent and leaves its arguments alone: the
\* same backlog gets the same result (flag, violations, errorMsg) every
\* time, a valid result is {valid: true} and nothing else, a failed one
\* carries the validator's errors and their text, the backlogs validated are
\* the backlogs handed in and the validator still holds the schema it was
\* compiled from
ValidationIsIdempotent ==
  /\ check.inputs = InputsOf(check.params)
  /\ check.validator.schema = createBacklogSchema
  /\ \A i, j \in 1..Len(check.results) :
       check.inputs[i] = check.inputs[j] =>
         check.results[i] = check.results[j]
  /\ \A i \in 1..Len(check.results) :
       IF check.results[i].valid
         THEN check.results[i] = [valid |-> TRUE]
         ELSE /\ DOMAIN check.results[i] = {"valid", "errors", "errorMsg"}
              /\ check.results[i].errors /= <<>>
              /\ check.results[i].errorMsg =
                   Join([n \in 1..Len(check.results[i].errors) |->
                           ErrorLine(check.results[i].errors[n])], <<"; ">>)
  /\ Len(check.results) >= 1 =>
       check.validator.errors =
         IF check.results[Len(check.results)].valid THEN JNull
         ELSE JArr(check.results[Len(check.results)].errors)

InvalidBacklogValidatedTwice ==
  /\ check.params.kind = "backlog"
  /\ Len(check.results) = 2
  /\ check.inputs[1] = check.inputs[2]
  /\ ~check.results[1].valid
  /\ Len(check.results[2].errors) >= 2

\* C19: every invocation of callApiForBacklog on a client that has the
\* completion operation sends exactly one request whatever comes back, so
\* the requests sent in a generation are as many as the invocations and as
\* many as the attempts started, and at most one is unanswered
OneProviderCallPerInvocation ==
  \A g \in DOMAIN gen :
    LET st == gen[g]
        started == IF st.attempt > maxTries THEN maxTries ELSE st.attempt
    IN /\ Len(st.sent) = Len(st.responses) + st.outstanding
       /\ st.outstanding \in {0, 1}
       /\ Prop(st.apiClient, "chat") /= Undefined =>
            /\ Len(st.sent) = st.adapterCalls
            /\ Len(st.sent) = started

ThreeKindsOfAnswerThreeRequests ==
  \E g \in DOMAIN gen :
    /\ gen[g].pc = "resolved"
    /\ Len(gen[g].responses) = 3
    /\ SchemaInvalid(gen[g].responses[1])
    /\ TransportFails(gen[g].responses[2])
    /\ AdapterThrows(gen[g].responses[3])
    /\ Len(gen[g].sent) = 3

NoFunctionCallMessage == <<"Aucun appel de fonction retourné par l'API">>

ProviderThrew(o) ==
  /\ o.kind = "throw"
  /\ ~(Has(o.error, "message") /\ o.error.message = NoChoicesMessage)

\* C21 as stated: an exception of the provider other than the no-choices
\* one leaves callApiForBacklog, no later attempt is started and the
\* envelope is a failure with the exception's message
ProviderExceptionMessageIsReported ==
  \A g \in DOMAIN gen : \A k \in 1..Len(gen[g].responses) :
    ProviderThrew(gen[g].responses[k]) =>
      /\ callApiForBacklog(gen[g].responses[k])
           = Thrown(gen[g].responses[k].error)
      /\ k = Len(gen[g].responses)
      /\ gen[g].adapterCalls = k
      /\ gen[g].resolved =
           <<[success |-> FALSE,
              error |-> [message |-> gen[g].responses[k].error.message]]>>

\* C21: an exception of the provider other than the no-choices one leaves
\* callApiForBacklog as it is, ends the generation on that attempt (the
\* adapter was called as often as the attempt's index, nothing is sent
\* afterwards) and the envelope is a failure with the exception's message,
\* or with the generic message of the catch clause when that message is empty
ProviderExceptionEndsGeneration ==
  \A g \in DOMAIN gen : \A k \in 1..Len(gen[g].responses) :
    ProviderThrew(gen[g].responses[k]) =>
      /\ callApiForBacklog(gen[g].responses[k])
           = Thrown(gen[g].responses[k].error)
      /\ k = Len(gen[g].responses)
      /\ gen[g].adapterCalls = k
      /\ Len(gen[g].sent) = k
      /\ gen[g].outstanding = 0
      /\ gen[g].pc = "resolved"
      /\ gen[g].resolved =
           <<[success |-> FALSE,
              error |-> [message |->
                IF gen[g].responses[k].error.message /= <<>>
                  THEN gen[g].responses[k].error.message
                  ELSE GenericCatchMessage]]>>

ProviderThrewOnSecondAttempt ==
  \E g \in DOMAIN gen :
    /\ Len(gen[g].responses) = 2
    /\ SchemaInvalid(gen[g].responses[1])
    /\ gen[g].responses[2] =
         [kind |-> "throw", error |-> Error(<<"Connection error.">>)]
    /\ gen[g].adapterCalls = 2
    /\ Envelope(gen[g]).error.message = <<"Connection error.">>

\* C22: the attempts of a generation are sequential: at most one call of the
\* adapter is outstanding, and a call goes out only when every earlier call
\* of the generation has been answered and the answer before it has been
\* handled as a failed attempt
AttemptsAreSequential ==
  /\ [](\A g \in DOMAIN gen :
          /\ gen[g].outstanding \in {0, 1}
          /\ Len(gen[g].sent) = Len(gen[g].responses) + gen[g].outstanding)
  /\ [][\A g \in DOMAIN gen :
          Len(gen'[g].sent) > Len(gen[g].sent) =>
            /\ Len(gen'[g].sent) = Len(gen[g].sent) + 1
            /\ Len(gen'[g].responses) = Len(gen[g].sent)
            /\ gen'[g].outstanding = 1
            /\ gen[g].sent /= <<>> =>
                 /\ gen[g].outstanding = 1
                 /\ Fails(gen'[g].responses[Len(gen[g].sent)])
                 /\ gen'[g].lastValidationErrors /= JNull]_vars

ThirdCallOutstanding ==
  \E g \in DOMAIN gen :
    /\ gen[g].pc = "awaiting"
    /\ Len(gen[g].sent) = 3
    /\ Len(gen[g].responses) = 2
    /\ gen[g].outstanding = 1

(***************************************************************************)
(* Two calls of generateBacklog in flight at once                          *)
(***************************************************************************)
Generations == {1, 2}

DocumentOutcome(d) ==
  [kind |-> "completion",
   completion |-> Completion([role |-> "assistant", content |-> JNull,
                               function_call |-> FunctionCall(JsonText(d))])]

\* one answer of each kind, two of them schema failures
RepresentativeOutcomes ==
  {[kind |-> "throw", error |-> Error(<<"Connection error.">>)],
   [kind |-> "completion",
    completion |-> Completion([role |-> "assistant", content |-> <<"text">>])],
   DocumentOutcome(Backlog(1, 2)),
   DocumentOutcome(TwoViolationsBacklog),
   DocumentOutcome(Backlog(3, 2))}

ConcurrentDescriptions == {JStr(<<"An online shop">>), JStr(<<"A blog">>)}

\* two calls of generateBacklog, neither run yet: the first for the shop on
\* the primary endpoint, the second for either project on the secondary
InitC ==
  /\ check = NoCheck
  /\ boot = NoBoot
  /\ md = NoRender
  /\ \E d \in ConcurrentDescriptions :
       gen = [g \in Generations |->
                IF g = 1
                  THEN NewGeneration(JStr(<<"Shop">>),
                                     JStr(<<"An online shop">>),
                                     initializeClient(JStr(<<"sk-1">>),
                                                      Undefined).value)
                  ELSE NewGeneration(JStr(<<"Shop">>), d,
                                     initializeClient(Undefined,
                                                      JStr(<<"gsk-1">>)).value)]

CompleteRepresentative(g) ==
  /\ gen[g].pc = "awaiting"
  /\ \E outcome \in RepresentativeOutcomes : Resume(g, outcome)
  /\ UNCHANGED <<check, boot, md>>

NextC == \E g \in DOMAIN gen : Start(g) \/ CompleteRepresentative(g)

SpecConcurrent == InitC /\ [][NextC]_vars

\* the same call of generateBacklog run alone on the same answers
RECURSIVE RunAlone(_, _)
RunAlone(st, responses) ==
  IF responses = <<>> THEN st
  ELSE RunAlone(attemptBody(st, Head(responses)), Tail(responses))

Alone(st) ==
  RunAlone(generateBacklogStart(NewGeneration(st.projectName,
                                              st.projectDescription,
                                              st.client)),
           st.responses)

\* the two turns the loop appends for a schema-invalid answer
OwnCorrectiveTurns(o) ==
  CorrectiveTurns(callApiForBacklog(o).value,
                  validateBacklog(DataOf(o), ajvCompile(createBacklogSchema)))

\* C23: whatever the interleaving of two generations, each one's messages
\* are its own three initial turns followed by corrective turns for its own
\* answers only, and its whole state (attempt counter, last failure,
\* messages, envelope) is the state it reaches when run alone on the
\* answers it received
GenerationsAreIndependent ==
  \A g \in DOMAIN gen :
    LET st == gen[g]
        own == UNION {{OwnCorrectiveTurns(st.responses[k])[n] : n \in 1..2} :
                        k \in {j \in 1..Len(st.responses) :
                                 SchemaInvalid(st.responses[j])}}
    IN st.pc /= "called" =>
         /\ st = Alone(st)
         /\ SubSeq(st.messages, 1, 3) = createApiMessages(ParamsOf(st).project)
         /\ \A i \in 4..Len(st.messages) : st.messages[i] \in own

BothResolvedDifferently ==
  /\ DOMAIN gen = Generations
  /\ gen[1].pc = "resolved" /\ gen[2].pc = "resolved"
  /\ Len(gen[1].messages) = 9
  /\ Len(gen[2].messages) = 5
  /\ ~Envelope(gen[1]).success
  /\ Envelope(gen[2]).success
  /\ DataOf(gen[1].responses[1]) /= DataOf(gen[2].responses[1])

(***************************************************************************)
(* Every call of the provider is answered in the end, and the executor of  *)
(* the promise runs                                                        *)
(***************************************************************************)
SpecLive == Spec /\ WF_vars(Next)

\* C24: when every call of the adapter completes, the generation ends up
\* resolved with one envelope after at most 3 calls of the adapter; a
\* generation that waits for an answer has no envelope and nothing but the
\* answer moves it on: there is no timeout and no cancellation
ResolvesUnlessACallHangs ==
  /\ <>[](\A g \in DOMAIN gen :
            /\ gen[g].pc = "resolved"
            /\ Len(gen[g].resolved) = 1
            /\ gen[g].adapterCalls <= 3)
  /\ [](\A g \in DOMAIN gen :
          gen[g].pc = "awaiting" =>
            gen[g].resolved = <<>> /\ gen[g].outstanding = 1)
  /\ [][\A g \in DOMAIN gen :
          (gen[g].pc = "awaiting" /\ gen'[g] /= gen[g]) =>
            /\ Len(gen'[g].responses) = Len(gen[g].responses) + 1
            /\ gen'[g].outstanding = gen[g].outstanding
                 \/ gen'[g].pc = "resolved"]_vars

SuccessOnThirdAnswer ==
  \E g \in DOMAIN gen :
    /\ gen[g].pc = "resolved"
    /\ gen[g].adapterCalls = 3
    /\ Len(gen[g].responses) = 3
    /\ Envelope(gen[g]).success

(***************************************************************************)
(* The loop as a state machine                                             *)
(***************************************************************************)
\* where the loop of a generation is: waiting for the answer of an attempt,
\* left with a validated backlog, left after the last attempt, left by an
\* exception, or not entered
LoopState(st) ==
  IF st.pc = "awaiting" THEN "ATTEMPTING"
  ELSE IF st.pc = "resolved" /\ st.attempt >= 1
    THEN IF Envelope(st).success THEN "VALIDATED"
         ELSE IF st.attempt > maxTries THEN "EXHAUSTED"
         ELSE "ABORTED"
  ELSE "OUTSIDE"

LastAnswer(st) == st.responses[Len(st.responses)]

\* ATTEMPTING -> VALIDATED, RETRY (ATTEMPTING again, index + 1), EXHAUSTED
ListedSuccessor(st, next) ==
  \/ /\ SchemaValid(LastAnswer(next))
     /\ LoopState(next) = "VALIDATED"
     /\ next.attempt = st.attempt
  \/ /\ Fails(LastAnswer(next))
     /\ st.attempt < 3
     /\ LoopState(next) = "ATTEMPTING"
     /\ next.attempt = st.attempt + 1
  \/ /\ Fails(LastAnswer(next))
     /\ st.attempt = 3
     /\ LoopState(next) = "EXHAUSTED"

\* ATTEMPTING -> ABORTED: the adapter threw
AbortSuccessor(st, next) ==
  /\ AdapterThrows(LastAnswer(next))
  /\ LoopState(next) = "ABORTED"
  /\ next.attempt = st.attempt

\* C25 as stated: from ATTEMPTING the loop goes to VALIDATED, back to
\* ATTEMPTING with the next index, or to EXHAUSTED, and every run of the loop
\* ends in VALIDATED or in EXHAUSTED
LoopHasThreeSuccessors ==
  /\ [][\A g \in DOMAIN gen :
          (LoopState(gen[g]) = "ATTEMPTING" /\ gen'[g] /= gen[g]) =>
            ListedSuccessor(gen[g], gen'[g])]_vars
  /\ [](\A g \in DOMAIN gen :
          (gen[g].pc = "resolved" /\ gen[g].attempt >= 1) =>
            LoopState(gen[g]) \in {"VALIDATED", "EXHAUSTED"})

\* C25: from ATTEMPTING the loop goes to VALIDATED (answer schema-valid),
\* back to ATTEMPTING with the index increased by exactly 1 (attempt failed,
\* index below 3), to EXHAUSTED (attempt 3 failed), or it is left by the
\* exception the adapter threw; the states in which the loop is left are
\* terminal
LoopSuccessorsWithAbort ==
  /\ [][\A g \in DOMAIN gen :
          /\ (LoopState(gen[g]) = "ATTEMPTING" /\ gen'[g] /= gen[g]) =>
               \/ ListedSuccessor(gen[g], gen'[g])
               \/ AbortSuccessor(gen[g], gen'[g])
          /\ LoopState(gen[g]) \in {"VALIDATED", "EXHAUSTED", "ABORTED"} =>
               gen'[g] = gen[g]]_vars
  /\ [](\A g \in DOMAIN gen :
          /\ gen[g].attempt \in 0..(maxTries + 1)
          /\ LoopState(gen[g]) = "ATTEMPTING" => gen[g].attempt \in 1..3
          /\ LoopState(gen[g]) = "EXHAUSTED" =>
               Len(gen[g].responses) = 3 /\ AllFail(gen[g]))

RetriedTwiceThenExhausted ==
  \E g \in DOMAIN gen :
    /\ LoopState(gen[g]) = "EXHAUSTED"
    /\ SchemaInvalid(gen[g].responses[1])
    /\ SchemaInvalid(gen[g].responses[2])
    /\ TransportFails(gen[g].responses[3])

\* the schema failures among the first n answers of a generation
SchemaFailures(st, n) ==
  Cardinality({j \in 1..n : SchemaInvalid(st.responses[j])})

\* C26: the two turns appended for a schema failure are an assistant turn
\* with the raw function call of that very attempt and a system turn whose
\* text holds every violation of that attempt as `<instancePath> <message>`,
\* joined by `; ` in the order the validator reports them
CorrectiveTurnListsAllViolations ==
  \A g \in DOMAIN gen : \A k \in 1..Len(gen[g].responses) :
    SchemaInvalid(gen[g].responses[k]) =>
      LET st == gen[g]
          errors == SchemaErrors(DataOf(st.responses[k]))
          lines == [i \in 1..Len(errors) |->
                      errors[i].instancePath \o <<" ">> \o errors[i].message]
          at == 3 + 2 * SchemaFailures(st, k - 1)
      IN /\ Len(st.messages) >= at + 2
         /\ st.messages[at + 1].role = "assistant"
         /\ st.messages[at + 1].function_call = RawCallOf(st.responses[k])
         /\ st.messages[at + 2].role = "system"
         /\ st.messages[at + 2].content =
              <<"La réponse JSON n'est pas valide : ">>
                \o Join(lines, <<"; ">>)
                \o <<". Merci de ne renvoyer que le JSON conforme via deliver_backlog.">>
         /\ \A i \in 1..Len(lines) :
              Includes(st.messages[at + 2].content, lines[i])
         /\ k < Len(st.sent) =>
              SubSeq(st.sent[k + 1].messages, 1, at + 2)
                = SubSeq(st.messages, 1, at + 2)

TwoViolationsFedBack ==
  \E g \in DOMAIN gen :
    /\ Len(gen[g].sent) = 3
    /\ SchemaInvalid(gen[g].responses[1])
    /\ SchemaInvalid(gen[g].responses[2])
    /\ DataOf(gen[g].responses[1]) = Backlog(1, 2)
    /\ DataOf(gen[g].responses[2]) = TwoViolationsBacklog
    /\ Len(SchemaErrors(TwoViolationsBacklog)) = 2
    /\ Includes(gen[g].sent[3].messages[7].content,
                <<" ", "must have required property '", "epic", "'", "; ",
                  "/", "mvp", " ">>)

IsPrefix(a, b) == Len(a) <= Len(b) /\ SubSeq(b, 1, Len(a)) = a

\* the failed attempts among the answers of a generation, of either kind
FailedAttempts(st) ==
  Cardinality({j \in 1..Len(st.responses) : Fails(st.responses[j])})

\* C27 as stated: the messages keep the three initial turns as their
\* beginning, every request carries the messages of the request before it
\* at its beginning, and after n failed attempts there are 3 + 2n turns
TwoTurnsPerFailedAttempt ==
  \A g \in DOMAIN gen :
    LET st == gen[g] IN
    st.messages /= <<>> =>
      /\ IsPrefix(createApiMessages(ParamsOf(st).project), st.messages)
      /\ \A k \in 1..Len(st.sent) : IsPrefix(st.sent[k].messages, st.messages)
      /\ Len(st.messages) = 3 + 2 * FailedAttempts(st)

\* C27: the messages keep the three initial turns as their beginning, every
\* request carries the messages of the request before it at its beginning
\* (no turn removed, moved or rewritten), and after n attempts that failed
\* validation there are 3 + 2n turns; an attempt that failed without a
\* usable answer adds none
TwoTurnsPerSchemaFailure ==
  \A g \in DOMAIN gen :
    LET st == gen[g] IN
    st.messages /= <<>> =>
      /\ Len(createApiMessages(ParamsOf(st).project)) = 3
      /\ IsPrefix(createApiMessages(ParamsOf(st).project), st.messages)
      /\ \A k \in 1..Len(st.sent) :
           /\ IsPrefix(st.sent[k].messages, st.messages)
           /\ k > 1 => IsPrefix(st.sent[k - 1].messages, st.sent[k].messages)
           /\ Len(st.sent[k].messages) = 3 + 2 * SchemaFailures(st, k - 1)
      /\ Len(st.messages) = 3 + 2 * SchemaFailures(st, Len(st.responses))

SevenTurnsAfterThreeFailures ==
  \E g \in DOMAIN gen :
    /\ gen[g].pc = "resolved"
    /\ Len(gen[g].responses) = 3
    /\ SchemaInvalid(gen[g].responses[1])
    /\ TransportFails(gen[g].responses[2])
    /\ SchemaInvalid(gen[g].responses[3])
    /\ FailedAttempts(gen[g]) = 3
    /\ Len(gen[g].messages) = 7

(***************************************************************************)
(* The client is built from the keys of the environment, then used for one *)
(* generation                                                              *)
(***************************************************************************)
Keys ==
  {Undefined, JNull, JStr(<<>>), JStr(<<"sk-1">>), JStr(<<"gsk-1">>)}

InitB ==
  /\ gen = <<>>
  /\ check = NoCheck
  /\ md = NoRender
  /\ \E openaiKey \in Keys, groqKey \in Keys :
       boot = [pc |-> "keys", openaiKey |-> openaiKey, groqKey |-> groqKey,
               client |-> Undefined, error |-> Undefined]

\* initializeClient(openaiKey, groqKey), and generateBacklog called with
\* the client it returned
InitializeClient ==
  /\ boot.pc = "keys"
  /\ LET made == initializeClient(boot.openaiKey, boot.groqKey)
     IN IF made.thrown
          THEN /\ boot' = [boot EXCEPT !.pc = "failed", !.error = made.error]
               /\ UNCHANGED gen
          ELSE /\ boot' = [boot EXCEPT !.pc = "client", !.client = made.value]
               /\ gen' = [g \in {1} |->
                            NewGeneration(JStr(<<"Shop">>),
                                          JStr(<<"An online shop">>),
                                          made.value)]
  /\ UNCHANGED <<check, md>>

NextB ==
  \/ InitializeClient
  \/ \E g \in DOMAIN gen : Start(g) \/ CompleteRepresentative(g)

SpecClient == InitB /\ [][NextB]_vars

\* a key is present when it is a non-empty string
KeyPresent(key) == key.t = "string" /\ key.s /= <<>>

\* C28: with the primary key present the client is one of the primary
\* endpoint with that key, whatever the secondary key; with the secondary
\* key alone it is one of the secondary endpoint, whose base address is
\* another one; with neither key initializeClient throws the configuration
\* error and nothing is ever sent
ClientPrefersPrimary ==
  /\ boot.pc = "client" =>
       /\ KeyPresent(boot.openaiKey) \/ KeyPresent(boot.groqKey)
       /\ IF KeyPresent(boot.openaiKey)
            THEN /\ boot.client.apiKey = boot.openaiKey
                 /\ boot.client.baseURL = OpenAIBaseURL
            ELSE /\ boot.client.apiKey = boot.groqKey
                 /\ boot.client.baseURL = GroqBaseURL
                 /\ GroqBaseURL /= OpenAIBaseURL
       /\ \A g \in DOMAIN gen : gen[g].client = boot.client
  /\ boot.pc = "failed" =>
       /\ ~KeyPresent(boot.openaiKey) /\ ~KeyPresent(boot.groqKey)
       /\ boot.error = Error(<<"No API key provided for OpenAI or GROQ">>)
       /\ gen = <<>>
  /\ boot.pc \in {"keys", "failed"} =>
       \A g \in DOMAIN gen : gen[g].sent = <<>>

BothKeysUsePrimary ==
  /\ boot.pc = "client"
  /\ boot.openaiKey = JStr(<<"sk-1">>)
  /\ boot.groqKey = JStr(<<"gsk-1">>)
  /\ \E g \in DOMAIN gen :
       /\ gen[g].sent /= <<>>
       /\ gen[g].apiClient.baseURL = OpenAIBaseURL

\* the model the endpoint of a client stands for
ModelOfEndpoint(client) ==
  IF Prop(client, "baseURL") = Undefined THEN "gpt-4.1"
  ELSE IF Includes(client.baseURL.s, <<"openai.com">>) THEN "gpt-4.1"
  ELSE "llama3-70b-8192"

\* C29: every request of a generation names the model of the client's
\* endpoint (gpt-4.1 for the primary endpoint or no base address,
\* llama3-70b-8192 for another base address), gives the backlog schema as the
\* parameters of the function deliver_backlog and forces the call of that
\* function: model, schema and function name are those of the first request
SameModelAndSchemaEveryAttempt ==
  \A g \in DOMAIN gen : \A k \in 1..Len(gen[g].sent) :
    LET st == gen[g] IN
    /\ st.model = ModelOfEndpoint(st.apiClient)
    /\ st.backlogSchema = createBacklogSchema
    /\ st.sent[k].model = ModelOfEndpoint(st.apiClient)
    /\ Len(st.sent[k].functions) = 1
    /\ st.sent[k].functions[1].name = "deliver_backlog"
    /\ st.sent[k].functions[1].parameters = createBacklogSchema
    /\ st.sent[k].function_call = [name |-> "deliver_backlog"]
    /\ st.sent[k].model = st.sent[1].model
    /\ st.sent[k].functions = st.sent[1].functions
    /\ st.sent[k].function_call = st.sent[1].function_call

ThreeRequestsToSecondary ==
  \E g \in DOMAIN gen :
    /\ Len(gen[g].sent) = 3
    /\ Prop(gen[g].apiClient, "baseURL") = GroqBaseURL
    /\ gen[g].sent[3].model = "llama3-70b-8192"
    /\ Len(gen[g].sent[3].messages) = 7

\* the turns a generation's first request carried
InitialTurns(st) == st.sent[1].messages

\* C30: the first request of a generation carries the three turns system,
\* user, system that createApiMessages returns for its project text, the
\* user turn holding that text verbatim after "Project description: "; two
\* generations with the same project text sent equal initial turns, whatever
\* either has appended to its own conversation since
InitialTurnsDependOnProjectOnly ==
  \A g \in DOMAIN gen : gen[g].sent /= <<>> =>
    LET st == gen[g]
        project == ParamsOf(st).project
    IN /\ InitialTurns(st) = createApiMessages(project)
       /\ Len(InitialTurns(st)) = 3
       /\ InitialTurns(st)[1].role = "system"
       /\ InitialTurns(st)[2].role = "user"
       /\ InitialTurns(st)[3].role = "system"
       /\ InitialTurns(st)[1].content = SystemRoleText
       /\ InitialTurns(st)[2].content = <<"Project description: ">> \o project
       /\ InitialTurns(st)[3].content = SystemShapeText
       /\ Includes(InitialTurns(st)[2].content, st.projectDescription.s)
       /\ \A h \in DOMAIN gen :
            (gen[h].sent /= <<>> /\ ParamsOf(gen[h]).project = project)
              => InitialTurns(gen[h]) = InitialTurns(st)

SameProjectAfterAppends ==
  /\ Len(gen[1].messages) = 7
  /\ gen[1].pc = "resolved"
  /\ gen[2].projectDescription = gen[1].projectDescription
  /\ Len(gen[2].sent) = 1
  /\ Len(gen[2].messages) = 3
  /\ InitialTurns(gen[2]) = InitialTurns(gen[1])

(***************************************************************************)
(* The two-argument call, the fallback message, the no-choices condition   *)
(***************************************************************************)
\* generateBacklog(project, client): the client object is the second
\* argument and there is no third
TwoArgumentCall(st) ==
  /\ st.client = Undefined
  /\ st.projectDescription.t = "object"
  /\ Prop(st.projectDescription, "chat") /= Undefined

\* C31: a call generateBacklog(project, client) with the client object as the
\* second argument and no third is no configuration error: the second
\* argument is the client of the generation, the user turn is made of the
\* first argument, and the adapter is called
TwoArgumentCallIsAccepted ==
  \A g \in DOMAIN gen :
    (TwoArgumentCall(gen[g]) /\ gen[g].pc /= "called") =>
      /\ gen[g].apiClient = gen[g].projectDescription
      /\ gen[g].adapterCalls >= 1
      /\ Len(gen[g].sent) >= 1
      /\ gen[g].sent[1].messages[2].content =
           <<"Project description: ">> \o gen[g].projectName.s \o <<": ">>
      /\ gen[g].pc = "resolved" =>
           Envelope(gen[g]) /=
             [success |-> FALSE, error |-> [message |-> ClientUndefinedMessage]]

TwoArgumentCallSucceeded ==
  \E g \in DOMAIN gen :
    /\ TwoArgumentCall(gen[g])
    /\ gen[g].pc = "resolved"
    /\ gen[g].adapterCalls = 1
    /\ Envelope(gen[g]) = [success |-> TRUE, result |-> Backlog(3, 2)]

\* C35: when the loop returns without success after its last attempt,
\* lastValidationErrors is a non-empty list whose first element has a
\* non-empty message, and the envelope carries that message and not the
\* fallback 'Validation du backlog échouée'
FallbackMessageIsUnreachable ==
  \A g \in DOMAIN gen :
    LoopState(gen[g]) = "EXHAUSTED" =>
      /\ gen[g].lastValidationErrors.t = "array"
      /\ Len(gen[g].lastValidationErrors.a) >= 1
      /\ Has(gen[g].lastValidationErrors.a[1], "message")
      /\ gen[g].lastValidationErrors.a[1].message /= <<>>
      /\ Envelope(gen[g]) =
           [success |-> FALSE,
            error |-> [message |-> gen[g].lastValidationErrors.a[1].message]]
      /\ Envelope(gen[g]).error.message /= GenericExhaustionMessage

ExhaustedOnReturnedFailures ==
  \E g \in DOMAIN gen :
    /\ LoopState(gen[g]) = "EXHAUSTED"
    /\ SchemaInvalid(gen[g].responses[1])
    /\ \A k \in 2..3 : TransportFails(gen[g].responses[k])
    /\ gen[g].responses[3].kind = "throw"
    /\ Envelope(gen[g]).error.message = NoChoicesMessage

\* the provider call itself threw an exception with this message
ProviderThrewWith(o, message) ==
  o.kind = "throw" /\ Has(o.error, "message") /\ o.error.message = message

\* the provider answered with a first choice that has no message object
FirstChoiceWithoutMessage(o) ==
  /\ o.kind = "completion"
  /\ Has(o.completion, "choices")
  /\ Len(o.completion.choices) > 0
  /\ ~Has(o.completion.choices[1], "message")

\* answer k of the generation was a failed attempt without corrective turns:
\* the next call went out with the same turns, or the loop ended after it
ContinuedWithoutFeedback(st, k) ==
  /\ st.attempt > k
  /\ IF k < maxTries
       THEN /\ Len(st.sent) > k
            /\ st.sent[k + 1].messages = st.sent[k].messages
       ELSE /\ LoopState(st) = "EXHAUSTED"
            /\ st.messages = st.sent[k].messages

\* answer k of the generation ended it with a failure envelope
AbortedOn(st, k) ==
  /\ k = Len(st.responses)
  /\ Len(st.sent) = k
  /\ st.attempt = k
  /\ LoopState(st) = "ABORTED"

\* C36: an exception of the provider call is a failed attempt without
\* corrective turns exactly when its message is the text of the no-choices
\* condition, any other exception of the provider ends the generation; a
\* first choice without message object raises an exception that ends the
\* generation as well
NoChoicesIsRecognisedByMessage ==
  \A g \in DOMAIN gen : \A k \in 1..Len(gen[g].responses) :
    LET st == gen[g]
        o == st.responses[k]
    IN /\ o.kind = "throw" =>
            /\ ProviderThrewWith(o, NoChoicesMessage)
                 <=> ContinuedWithoutFeedback(st, k)
            /\ ~ProviderThrewWith(o, NoChoicesMessage) <=> AbortedOn(st, k)
       /\ FirstChoiceWithoutMessage(o) =>
            /\ AbortedOn(st, k)
            /\ Envelope(st) =
                 [success |-> FALSE,
                  error |-> [message |->
                    <<"Cannot read properties of undefined (reading 'function_call')">>]]

NoChoicesThrownThenChoiceWithoutMessage ==
  \E g \in DOMAIN gen :
    /\ Len(gen[g].responses) = 2
    /\ ProviderThrewWith(gen[g].responses[1], NoChoicesMessage)
    /\ FirstChoiceWithoutMessage(gen[g].responses[2])
    /\ Len(gen[g].sent) = 2
    /\ gen[g].pc = "resolved"

(***************************************************************************)
(* markdown-generator.js: values, texts and paths                          *)
(***************************************************************************)
JBool(b) == [t |-> "boolean", b |-> b]

\* v.name for a JSON value that is neither undefined nor null
Field(v, name) ==
  IF v.t = "object" /\ name \in DOMAIN v.f THEN v.f[name] ELSE Undefined

\* a TypeError, as the catch clause of the renderer reads it
TypeError(message) ==
  [message |-> message, stack |-> <<"TypeError: ">> \o message]

\* the error fs-extra rejects with when a directory or file cannot be written
FsError ==
  [message |-> <<"EACCES: permission denied">>,
   stack |-> <<"Error: EACCES: permission denied">>]

\* texts are sequences of tokens; a line break is the token "\n"
NL == <<"\n">>

RECURSIVE Lines(_)
Lines(text) ==
  IF \A i \in 1..Len(text) : text[i] /= "\n" THEN <<text>>
  ELSE LET i == CHOOSE i \in 1..Len(text) :
                  text[i] = "\n" /\ \A j \in 1..(i - 1) : text[j] /= "\n"
       IN <<SubSeq(text, 1, i - 1)>> \o Lines(SubSeq(text, i + 1, Len(text)))

\* an element of an array as Array.prototype.join renders it
ItemText(v) ==
  IF v.t \in {"undefined", "null"} THEN <<>> ELSE TemplateText(v)

UpperCaseLetters ==
  <<"A", "B", "C", "D", "E", "F", "G", "H", "I", "J", "K", "L", "M",
    "N", "O", "P", "Q", "R", "S", "T", "U", "V", "W", "X", "Y", "Z">>

LowerCaseLetters ==
  <<"a", "b", "c", "d", "e", "f", "g", "h", "i", "j", "k", "l", "m",
    "n", "o", "p", "q", "r", "s", "t", "u", "v", "w", "x", "y", "z">>

\* String.prototype.toLowerCase on a text of single characters
ToLowerCase(chars) ==
  [i \in 1..Len(chars) |->
     IF \E k \in 1..Len(UpperCaseLetters) : UpperCaseLetters[k] = chars[i]
       THEN LowerCaseLetters[CHOOSE k \in 1..Len(UpperCaseLetters) :
                               UpperCaseLetters[k] = chars[i]]
       ELSE chars[i]]

SlugChars == {LowerCaseLetters[k] : k \in 1..Len(LowerCaseLetters)} \cup Digits

\* replace(/([^a-z0-9])+/g, '-'): every maximal run of other characters
\* becomes one hyphen
RECURSIVE ReplaceRuns(_, _)
ReplaceRuns(chars, inRun) ==
  IF chars = <<>> THEN <<>>
  ELSE IF Head(chars) \in SlugChars
    THEN <<Head(chars)>> \o ReplaceRuns(Tail(chars), FALSE)
  ELSE (IF inRun THEN <<>> ELSE <<"-">>) \o ReplaceRuns(Tail(chars), TRUE)

createSlug(text) ==
  IF ~Truthy(text) THEN Returned(<<"i", "t", "e", "m">>)
  ELSE IF text.t /= "string"
    THEN Thrown(TypeError(<<"(text || \"item\").toLowerCase is not a function">>))
  ELSE Returned(ReplaceRuns(ToLowerCase(text.s), FALSE))

(***************************************************************************)
(* formatUserStory                                                         *)
(***************************************************************************)
\* the lines of a checklist, one `- [ ] <item>` per element
Checklist(items) ==
  Join([i \in 1..Len(items) |-> <<"- [ ] ">> \o TemplateText(items[i]) \o NL],
       <<>>)

\* what formatUserStory makes of a story whose dependencies, criteria and
\* tasks it can read
StoryMarkdown(story) ==
  LET priority == Field(story, "priority")
      dependencies == Field(story, "dependencies")
  IN <<"## ">> \o TemplateText(Field(story, "id")) \o <<": ">>
     \o TemplateText(Field(story, "title")) \o NL \o NL
     \o <<"- [ ] ">> \o TemplateText(Field(story, "description")) \o NL \o NL
     \o (IF Truthy(priority)
           THEN <<"**Priority:** ">> \o TemplateText(priority) \o NL \o NL
           ELSE <<>>)
     \o (IF dependencies.t = "array" /\ Len(dependencies.a) > 0
           THEN <<"**Dependencies:** ">>
                  \o Join([i \in 1..Len(dependencies.a) |->
                             ItemText(dependencies.a[i])], <<", ">>)
                  \o NL \o NL
           ELSE <<>>)
     \o <<"### Acceptance Criteria">> \o NL
     \o Checklist(Field(story, "acceptance_criteria").a)
     \o NL \o <<"### Technical Tasks">> \o NL
     \o Checklist(Field(story, "tasks").a)
     \o NL \o <<"---">> \o NL \o NL

\* the exception formatUserStory raises before it returns, if any
StoryFormatError(story) ==
  IF story.t \in {"undefined", "null"}
    THEN <<"Cannot read properties of ">> \o TemplateText(story)
           \o <<" (reading 'id')">>
  ELSE IF Field(story, "dependencies").t = "string"
            /\ Field(story, "dependencies").s /= <<>>
    THEN <<"story.dependencies.join is not a function">>
  ELSE IF Field(story, "acceptance_criteria").t \in {"undefined", "null"}
    THEN <<"Cannot read properties of ">>
           \o TemplateText(Field(story, "acceptance_criteria"))
           \o <<" (reading 'forEach')">>
  ELSE IF Field(story, "acceptance_criteria").t /= "array"
    THEN <<"story.acceptance_criteria.forEach is not a function">>
  ELSE IF Field(story, "tasks").t \in {"undefined", "null"}
    THEN <<"Cannot read properties of ">>
           \o TemplateText(Field(story, "tasks"))
           \o <<" (reading 'forEach')">>
  ELSE IF Field(story, "tasks").t /= "array"
    THEN <<"story.tasks.forEach is not a function">>
  ELSE <<>>

\* variant: the last criterion and the last task are left out
formatUserStoryDropsLast(story) ==
  IF StoryFormatError(story) /= <<>>
    THEN Thrown(TypeError(StoryFormatError(story)))
    ELSE LET shorter(list) ==
               IF list.a = <<>> THEN list
               ELSE JArr(SubSeq(list.a, 1, Len(list.a) - 1))
         IN Returned(StoryMarkdown(
              JObj([story.f EXCEPT
                      !.acceptance_criteria = shorter(@),
                      !.tasks = shorter(@)])))

formatUserStory(story) ==
  IF StoryFormatError(story) /= <<>>
    THEN Thrown(TypeError(StoryFormatError(story)))
    ELSE Returned(StoryMarkdown(story))

(***************************************************************************)
(* The files the renderer writes                                           *)
(***************************************************************************)
\* a path is the sequence of its segments; path.join appends one
Sub(dir, name) == Append(dir, name)

PathText(path) == Join(path, <<"/">>)

\* the calls of fs-extra the renderer awaits
EnsureDir(path) == [op |-> "ensureDir", path |-> path]
WriteFile(path, data) == [op |-> "writeFile", path |-> path, data |-> data]

Markdown(text) == [chars |-> text]

\* a stretch of the renderer: the calls of fs-extra it awaits one after the
\* other, and the exception that ends it, if any
NoError == [message |-> <<>>, stack |-> <<>>]
Run(ops) == [ops |-> ops, thrown |-> FALSE, error |-> NoError]
Throw(ops, error) == [ops |-> ops, thrown |-> TRUE, error |-> error]
AndThen(first, second) ==
  IF first.thrown THEN first
  ELSE [second EXCEPT !.ops = first.ops \o @]

\* the banners, each one token: their first lines, without the emoji of the
\* heading
aiAutomationInstructions ==
  <<"\n## Instructions for AI\n\nAs an AI assistant, follow these guidelines when analyzing this document:\n[...]\n---\n\n">>
epicFileInstructions ==
  <<"\n## Epic Processing Instructions for AI\n\nThis file defines the main Epic of the project. When working with this file:\n[...]\n---\n\n">>
mvpFileInstructions ==
  <<"\n## MVP User Stories Instructions for AI\n\nThis file contains the Minimum Viable Product (MVP) User Stories that must be implemented first:\n[...]\n---\n\n">>
iterationFileInstructions ==
  <<"\n## Iteration Planning Instructions for AI\n\nThis file contains User Stories for a specific iteration (development cycle):\n[...]\n---\n\n">>

generateEpicFiles(epic, outputDir) ==
  LET epicsDir == Sub(outputDir, <<"epics">>)
      description == Field(epic, "description")
  IN Run(<< EnsureDir(epicsDir),
            WriteFile(Sub(epicsDir, <<"epic.md">>),
              Markdown(aiAutomationInstructions \o epicFileInstructions
                \o <<"# Epic: ">> \o TemplateText(Field(epic, "title"))
                \o NL \o NL
                \o (IF Truthy(description) THEN TemplateText(description)
                    ELSE <<"No description provided.">>)
                \o NL)) >>)

generateUserStoryFiles(userStory, parentDir) ==
  IF userStory.t \in {"undefined", "null"}
    THEN Throw(<<>>, TypeError(StoryFormatError(userStory)))
  ELSE
    LET usSlug == createSlug(IF Truthy(Field(userStory, "id"))
                               THEN Field(userStory, "id")
                               ELSE Field(userStory, "title"))
        formatted == formatUserStory(userStory)
    IN IF usSlug.thrown THEN Throw(<<>>, usSlug.error)
       ELSE IF formatted.thrown THEN Throw(<<>>, formatted.error)
       ELSE
         LET tasks == Field(userStory, "tasks").a
             tasksDir == Sub(parentDir, usSlug.value \o <<"-tasks">>)
         IN Run(<<WriteFile(Sub(parentDir, usSlug.value \o <<".md">>),
                            Markdown(formatted.value))>>
                \o (IF Len(tasks) > 0
                      THEN <<EnsureDir(tasksDir)>>
                           \o [idx \in 1..Len(tasks) |->
                                 WriteFile(
                                   Sub(tasksDir, <<"task-", ToString(idx), ".md">>),
                                   Markdown(<<"# Task">> \o NL \o NL
                                            \o TemplateText(tasks[idx]) \o NL))]
                      ELSE <<>>))

\* for (const userStory of stories) await generateUserStoryFiles(userStory, usDir)
RECURSIVE StoriesFiles(_, _)
StoriesFiles(stories, usDir) ==
  IF stories = <<>> THEN Run(<<>>)
  ELSE AndThen(generateUserStoryFiles(Head(stories), usDir),
               StoriesFiles(Tail(stories), usDir))

generateMvpFiles(mvpStories, outputDir) ==
  LET mvpDir == Sub(outputDir, <<"mvp">>)
      usDir == Sub(mvpDir, <<"user-stories">>)
  IN AndThen(
       Run(<< EnsureDir(mvpDir),
              WriteFile(Sub(mvpDir, <<"user-stories.md">>),
                Markdown(aiAutomationInstructions \o mvpFileInstructions
                  \o <<"# MVP - User Stories">> \o NL \o NL
                  \o <<"This file contains all user stories for the Minimum Viable Product (MVP).">>
                  \o NL \o NL)) >>),
       IF Len(mvpStories.a) > 0
         THEN AndThen(Run(<<EnsureDir(usDir)>>),
                      StoriesFiles(mvpStories.a, usDir))
         ELSE Run(<<>>))

\* the body of the loop of generateIterationFiles for one iteration
IterationFiles(iteration, iterationsDir, position) ==
  IF iteration.t \in {"undefined", "null"}
    THEN Throw(<<>>, TypeError(<<"Cannot read properties of ">>
                                 \o TemplateText(iteration)
                                 \o <<" (reading 'name')">>))
  ELSE
    LET name == Field(iteration, "name")
        goal == Field(iteration, "goal")
        stories == Field(iteration, "stories")
        iterationSlug == createSlug(name)
    IN IF iterationSlug.thrown THEN Throw(<<>>, iterationSlug.error)
       ELSE
         LET iterationDir == Sub(iterationsDir, iterationSlug.value)
             usDir == Sub(iterationDir, <<"user-stories">>)
         IN AndThen(
              Run(<< EnsureDir(iterationDir),
                     WriteFile(Sub(iterationDir, <<"iteration.md">>),
                       Markdown(aiAutomationInstructions
                         \o iterationFileInstructions
                         \o <<"# ">>
                         \o (IF Truthy(name) THEN TemplateText(name)
                             ELSE <<"Iteration">>)
                         \o NL
                         \o (IF Truthy(goal)
                               THEN NL \o <<"## Goal: ">> \o TemplateText(goal)
                               ELSE <<>>))) >>),
              IF stories.t = "array" /\ Len(stories.a) > 0
                THEN AndThen(Run(<<EnsureDir(usDir)>>),
                             StoriesFiles(stories.a, usDir))
                ELSE Run(<<>>))

RECURSIVE IterationsFrom(_, _, _)
IterationsFrom(iterations, iterationsDir, position) ==
  IF position > Len(iterations) THEN Run(<<>>)
  ELSE AndThen(IterationFiles(iterations[position], iterationsDir, position),
               IterationsFrom(iterations, iterationsDir, position + 1))

generateIterationFiles(iterations, outputDir) ==
  IF iterations.t /= "array" THEN Run(<<>>)
  ELSE IF Len(iterations.a) = 0 THEN Run(<<>>)
  ELSE AndThen(Run(<<EnsureDir(Sub(outputDir, <<"iterations">>))>>),
               IterationsFrom(iterations.a, Sub(outputDir, <<"iterations">>), 1))

saveRawBacklog(backlog, outputDir) ==
  Run(<<WriteFile(Sub(outputDir, <<"backlog.json">>), JsonText(backlog))>>)

(***************************************************************************)
(* validateBacklogResult, generateMarkdownFilesFromResult                  *)
(***************************************************************************)
\* variant: a result that does not report success is rendered all the same
validateBacklogResultAcceptsFailures(backlogResult) ==
  IF ~Truthy(backlogResult) \/ ~TypeofObject(backlogResult)
    THEN [valid |-> FALSE,
          error |-> JObj([message |->
                     JStr(<<"Argument backlogResult manquant ou invalide">>)])]
    ELSE [valid |-> TRUE, error |-> Undefined]

validateBacklogResult(backlogResult) ==
  IF ~Truthy(backlogResult) \/ ~TypeofObject(backlogResult)
    THEN [valid |-> FALSE,
          error |-> JObj([message |->
                     JStr(<<"Argument backlogResult manquant ou invalide">>)])]
  ELSE IF ~Truthy(Field(backlogResult, "success"))
    THEN [valid |-> FALSE, error |-> Field(backlogResult, "error")]
  ELSE [valid |-> TRUE, error |-> Undefined]

\* path.join(outputDir, '.agile-planner-backlog')
OutputDir == << <<"out">>, <<".agile-planner-backlog">> >>

NavigationFile ==
  WriteFile(Sub(OutputDir, <<"README.md">>),
    Markdown(<<"# Agile Backlog">> \o NL \o NL
      \o <<"- [Epic](./epics/epic.md)">> \o NL
      \o <<"- [MVP](./mvp/user-stories.md)">> \o NL
      \o <<"- [Iterations](./iterations/)">> \o NL
      \o <<"- [Raw Backlog](./backlog.json)">> \o NL))

\* variant: the elements of epics come before epic
resolveEpicPrefersEpics(backlog) ==
  LET epics == Field(backlog, "epics")
  IN IF epics.t = "array" /\ Len(epics.a) > 0 /\ Truthy(epics.a[1])
       THEN epics.a[1]
       ELSE Field(backlog, "epic")

\* backlog.epic || (backlog.epics && backlog.epics[0])
resolveEpic(backlog) ==
  LET epics == Field(backlog, "epics")
  IN IF Truthy(Field(backlog, "epic")) THEN Field(backlog, "epic")
     ELSE IF ~Truthy(epics) THEN epics
     ELSE IF epics.t = "array" /\ Len(epics.a) > 0 THEN epics.a[1]
     ELSE IF epics.t = "string" THEN JStr(<<Head(epics.s)>>)
     ELSE Undefined

\* what the catch clause of generateMarkdownFilesFromResult returns
CaughtFailure(error) ==
  JObj([success |-> JBool(FALSE),
        error |-> JObj([message |-> JStr(error.message),
                        stack |-> JStr(error.stack)])])

NoEpicFailure ==
  JObj([success |-> JBool(FALSE),
        error |-> JObj([message |->
                   JStr(<<"Backlog does not contain an epic">>)])])

RenderSuccess ==
  JObj([success |-> JBool(TRUE),
        files |-> JObj([epicsDir |->
                   JStr(PathText(Sub(OutputDir, <<"epics">>)))])])

\* a stretch that is the whole try block: its calls and what the function
\* returns when all of them have returned
Finished(run, result) ==
  [ops |-> run.ops,
   result |-> IF run.thrown THEN CaughtFailure(run.error) ELSE result]

\* variant: the raw backlog is saved before the markdown files
BacklogFilesRawFirst(backlog, epic) ==
  AndThen(saveRawBacklog(backlog, OutputDir),
  AndThen(generateEpicFiles(epic, OutputDir),
  AndThen(IF Field(backlog, "mvp").t = "array"
            THEN generateMvpFiles(Field(backlog, "mvp"), OutputDir)
            ELSE Run(<<>>),
          generateIterationFiles(Field(backlog, "iterations"), OutputDir))))

\* the files of the backlog after the epic has been found
BacklogFiles(backlog, epic) ==
  AndThen(generateEpicFiles(epic, OutputDir),
  AndThen(IF Field(backlog, "mvp").t = "array"
            THEN generateMvpFiles(Field(backlog, "mvp"), OutputDir)
            ELSE Run(<<>>),
  AndThen(generateIterationFiles(Field(backlog, "iterations"), OutputDir),
          saveRawBacklog(backlog, OutputDir))))

\* the try block of generateMarkdownFilesFromResult for a backlog: the calls
\* of fs-extra it awaits in order, as long as each of them returns, and the
\* value the function returns after the last
RenderPlan(backlog) ==
  LET first == Run(<<EnsureDir(OutputDir), NavigationFile>>)
  IN IF backlog.t \in {"undefined", "null"}
       THEN Finished(
              Throw(first.ops,
                    TypeError(<<"Cannot read properties of ">>
                                \o TemplateText(backlog)
                                \o <<" (reading 'epic')">>)),
              Undefined)
     ELSE IF ~Truthy(resolveEpic(backlog))
       THEN Finished(first, NoEpicFailure)
     ELSE Finished(AndThen(first, BacklogFiles(backlog, resolveEpic(backlog))),
                   RenderSuccess)

\* a call of generateMarkdownFilesFromResult(backlogResult, 'out')
\*   pc     "called", "awaiting" (a call of fs-extra is outstanding),
\*          "resolved" or "rejected" (the promise the function returned)
\*   log    the calls of fs-extra awaited so far, each with whether it
\*          returned (ok) or threw
\*   value  what the promise was resolved or rejected with
NewRender(backlogResult) ==
  [pc |-> "called", backlogResult |-> backlogResult, log |-> <<>>,
   value |-> Undefined]

\* generateMarkdownFilesFromResult up to its first await
generateMarkdownFilesFromResultStart(st) ==
  LET validation == validateBacklogResult(st.backlogResult)
  IN IF ~validation.valid
       THEN IF validation.error.t \in {"undefined", "null"}
              THEN [st EXCEPT
                      !.pc = "rejected",
                      !.value =
                        JObj([message |->
                          JStr(<<"Cannot read properties of ">>
                                 \o TemplateText(validation.error)
                                 \o <<" (reading 'message')">>)])]
              ELSE [st EXCEPT
                      !.pc = "resolved",
                      !.value = JObj([success |-> JBool(FALSE),
                                      error |-> validation.error])]
       ELSE [st EXCEPT !.pc = "awaiting"]

\* generateMarkdownFilesFromResult from the end of the awaited call of
\* fs-extra, which returned (ok) or threw, to the next await or the return
generateMarkdownFilesFromResultResume(st, ok) ==
  LET plan == RenderPlan(Field(st.backlogResult, "result"))
      logged == Append(st.log, [call |-> plan.ops[Len(st.log) + 1], ok |-> ok])
  IN IF ~ok
       THEN [st EXCEPT !.log = logged, !.pc = "resolved",
                       !.value = CaughtFailure(FsError)]
     ELSE IF Len(logged) = Len(plan.ops)
       THEN [st EXCEPT !.log = logged, !.pc = "resolved",
                       !.value = plan.result]
     ELSE [st EXCEPT !.log = logged]

(***************************************************************************)
(* What the renderer is called with                                        *)
(***************************************************************************)
MaxRenderCriteria == 2
MaxRenderTasks == 2

\* a story as the schema wants it, with one criterion and one task
RenderStory(id, title) ==
  JObj([id |-> JStr(id), title |-> JStr(title),
        description |-> JStr(<<"d">>),
        acceptance_criteria |-> JArr(<<JStr(<<"a">>)>>),
        tasks |-> JArr(<<JStr(<<"x">>)>>),
        priority |-> JStr(<<"HIGH">>)])

US(n) == <<"U", "S", ToString(n)>>

\* the stories formatUserStory is given: with and without priority, with no,
\* an empty, or a list of dependencies, with lists of criteria and of tasks
FormatCandidates ==
  {JObj([f \in {"id", "title", "description", "acceptance_criteria", "tasks"}
              \cup fields |->
           CASE f = "id" -> JStr(US(1))
             [] f = "title" -> JStr(<<"t">>)
             [] f = "description" -> JStr(<<"d">>)
             [] f = "acceptance_criteria" ->
                  JArr([i \in 1..nc |-> JStr(<<"c", ToString(i)>>)])
             [] f = "tasks" -> JArr([i \in 1..nt |-> JStr(<<"k", ToString(i)>>)])
             [] f = "priority" -> JStr(priority)
             [] f = "dependencies" -> JArr([i \in 1..nd |-> JStr(US(i + 1))])]) :
     fields \in SUBSET {"priority", "dependencies"},
     priority \in {<<>>, <<"HIGH">>},
     nd \in 0..2, nc \in 0..MaxRenderCriteria, nt \in 0..MaxRenderTasks}

\* the lists of stories of an mvp: none, the empty one, distinct ids, one id
\* twice, two ids with one slug, a story without id, the story of the
\* integration test (an id and a title only)
MvpLists ==
  {Undefined,
   JArr(<<>>),
   JArr(<<RenderStory(US(1), <<"o", "n", "e">>),
          RenderStory(US(2), <<"t", "w", "o">>)>>),
   JArr(<<RenderStory(US(1), <<"o", "n", "e">>),
          RenderStory(US(1), <<"t", "w", "o">>)>>),
   JArr(<<RenderStory(<<"U", "S", "-", "1">>, <<"o", "n", "e">>),
          RenderStory(<<"u", "s", " ", "1">>, <<"t", "w", "o">>)>>),
   JArr(<<JObj([title |-> JStr(<<"N", "o", " ", "i", "d">>),
                description |-> JStr(<<"d">>),
                acceptance_criteria |-> JArr(<<JStr(<<"a">>)>>),
                tasks |-> JArr(<<>>)])>>),
   JArr(<<JObj([id |-> JStr(<<"U", "S", "0", "0", "1">>),
                title |-> JStr(<<"Test User Story">>)])>>)}

RenderIteration(name, stories) ==
  JObj([name |-> JStr(name), goal |-> JStr(<<"g">>), stories |-> JArr(stories)])

\* the iterations: none; two names and one story id; one name twice and one
\* story id; two names with one slug and two story ids
IterationLists ==
  {Undefined,
   JArr(<<RenderIteration(<<"I", "1">>, <<RenderStory(US(1), <<"i", "1">>)>>),
          RenderIteration(<<"I", "2">>, <<RenderStory(US(1), <<"i", "2">>)>>)>>),
   JArr(<<RenderIteration(<<"i">>, <<RenderStory(US(1), <<"i", "1">>)>>),
          RenderIteration(<<"i">>, <<RenderStory(US(1), <<"i", "2">>)>>)>>),
   JArr(<<RenderIteration(<<"I", " ", "1">>, <<RenderStory(US(3), <<"i", "1">>)>>),
          RenderIteration(<<"i", "-", "1">>, <<RenderStory(US(4), <<"i", "2">>)>>)>>)}

RenderEpic(title) == JObj([title |-> JStr(title), description |-> JStr(<<"d">>)])

\* where the epic is: epic, epics, both, neither, an empty epics, a null epic
\* beside epics
RenderEpicFields ==
  {[epic |-> RenderEpic(<<"E1">>)],
   [epics |-> JArr(<<RenderEpic(<<"E2">>), RenderEpic(<<"E3">>)>>)],
   [epic |-> RenderEpic(<<"E1">>), epics |-> JArr(<<RenderEpic(<<"E2">>)>>)],
   [none |-> Undefined],
   [epics |-> JArr(<<>>)],
   [epic |-> JNull, epics |-> JArr(<<RenderEpic(<<"E2">>)>>)]}

\* a backlog of the given epic fields, mvp and iterations (absent when
\* undefined)
RenderBacklog(epicFields, mvp, iterations) ==
  LET names == (DOMAIN epicFields \ {"none"})
                 \cup (IF mvp = Undefined THEN {} ELSE {"mvp"})
                 \cup (IF iterations = Undefined THEN {} ELSE {"iterations"})
  IN JObj([f \in names |->
             CASE f = "mvp" -> mvp
               [] f = "iterations" -> iterations
               [] OTHER -> epicFields[f]])

RenderBacklogs ==
  {RenderBacklog(e, m, i) :
     e \in RenderEpicFields, m \in MvpLists, i \in IterationLists}
  \cup {RenderBacklog([epic |-> RenderEpic(<<"E1">>)], JArr(<<story>>), Undefined) :
          story \in FormatCandidates}

\* the backlog of the integration test (hierarchical-structure.test.js)
sampleBacklog ==
  JObj([projectName |-> JStr(<<"Test Project">>),
        description |-> JStr(<<"Description du projet de test">>),
        epics |-> JArr(<<JObj([id |-> JStr(<<"EPIC-001">>),
                               name |-> JStr(<<"Test Epic">>),
                               description |-> JStr(<<"Description de l'epic de test">>)])>>),
        mvp |-> JArr(<<JObj([id |-> JStr(<<"U", "S", "0", "0", "1">>),
                             title |-> JStr(<<"Test User Story">>)])>>),
        iterations |->
          JArr(<<JObj([id |-> JStr(<<"ITER-001">>),
                       name |-> JStr(<<"I", "t", "e", "r", "a", "t", "i", "o", "n", " ", "1">>),
                       stories |-> JArr(<<JObj([id |-> JStr(<<"U", "S", "0", "0", "1">>),
                                                title |-> JStr(<<"Test User Story">>)])>>)])>>)])

\* the envelope of generateBacklog as the value the caller passes on
EnvelopeValue(e) ==
  IF e.success
    THEN JObj([success |-> JBool(TRUE), result |-> e.result])
    ELSE JObj([success |-> JBool(FALSE),
               error |-> JObj([message |-> JStr(e.error.message)])])

\* envelopes of generateBacklog: of a call without client, and of calls whose
\* provider answers with the given outcomes
GeneratedEnvelopes ==
  {EnvelopeValue(Envelope(generateBacklogStart(
     NewGeneration(JStr(<<"Shop">>), JStr(<<"An online shop">>), Undefined))))}
  \cup
  {EnvelopeValue(Envelope(RunAlone(
     generateBacklogStart(
       NewGeneration(JStr(<<"Shop">>), JStr(<<"An online shop">>), StubClient)),
     responses))) :
     responses \in
       {<<DocumentOutcome(d)>> :
          d \in {Backlog(3, 2), DuplicateIdBacklog, EmptyEpicBacklog("description")}}
       \cup {<<[kind |-> "throw", error |-> Error(m)]>> :
               m \in {<<"Connection error.">>, <<>>}}
       \cup {<<DocumentOutcome(TwoViolationsBacklog),
               DocumentOutcome(TwoViolationsBacklog), o>> :
               o \in {DocumentOutcome(EpicsBacklog),
                      [kind |-> "throw", error |-> Error(NoChoicesMessage)]}}}

\* what the renderer is called with: nothing, a text, a backlog that is not
\* wrapped, results that report success with and without a backlog, results
\* that report failure with and without an error, envelopes of generateBacklog
\* backlogs handed over as they are, without {success, result} around them:
\* the one of the integration test and one with complete stories
UnwrappedBacklogs ==
  {sampleBacklog,
   RenderBacklog(
     [epics |-> JArr(<<RenderEpic(<<"E2">>)>>)],
     JArr(<<RenderStory(US(1), <<"o", "n", "e">>)>>),
     JArr(<<RenderIteration(<<"I", "1">>, <<RenderStory(US(2), <<"i", "1">>)>>)>>))}

BacklogResults ==
  {Undefined, JNull, JStr(<<"backlog">>),
   JObj([success |-> JBool(TRUE), result |-> sampleBacklog]),
   JObj([success |-> JBool(TRUE)]),
   JObj([success |-> JBool(FALSE)])}
  \cup UnwrappedBacklogs
  \cup {JObj([success |-> JBool(TRUE), result |-> b]) : b \in RenderBacklogs}
  \cup GeneratedEnvelopes

(***************************************************************************)
(* The renderer as a state machine                                         *)
(***************************************************************************)
InitR ==
  /\ gen = <<>>
  /\ check = NoCheck
  /\ boot = NoBoot
  /\ \E backlogResult \in BacklogResults : md = NewRender(backlogResult)

\* the call runs to its first await, or to its end
RenderStart ==
  /\ md.pc = "called"
  /\ md' = generateMarkdownFilesFromResultStart(md)
  /\ UNCHANGED <<gen, check, boot>>

\* the awaited ensureDir or writeFile returns
FsReturns ==
  /\ md.pc = "awaiting"
  /\ md' = generateMarkdownFilesFromResultResume(md, TRUE)
  /\ UNCHANGED <<gen, check, boot>>

\* the awaited ensureDir or writeFile throws
FsThrows ==
  /\ md.pc = "awaiting"
  /\ md' = generateMarkdownFilesFromResultResume(md, FALSE)
  /\ UNCHANGED <<gen, check, boot>>

NextR == RenderStart \/ FsReturns \/ FsThrows

SpecRender == InitR /\ [][NextR]_vars

(***************************************************************************)
(* Vocabulary of the properties of the renderer                            *)
(***************************************************************************)
\* the backlog the renderer reads
RenderedBacklog == Field(md.backlogResult, "result")

\* the positions in the log of the files written
Writes ==
  {k \in 1..Len(md.log) : md.log[k].ok /\ md.log[k].call.op = "writeFile"}

PathOf(k) == md.log[k].call.path

\* a story file: a file right below a directory user-stories
IsStoryPath(path) == Len(path) >= 2 /\ path[Len(path) - 1] = <<"user-stories">>

StoryWrites == {k \in Writes : IsStoryPath(PathOf(k))}

\* the elements of mvp and of the stories of every iteration
ListOf(v) == IF v.t = "array" THEN v.a ELSE <<>>
Elements(list) == {list[i] : i \in 1..Len(list)}
MvpStories(backlog) == ListOf(Field(backlog, "mvp"))
RenderedIterations(backlog) == ListOf(Field(backlog, "iterations"))
AllStories(backlog) ==
  Elements(MvpStories(backlog))
    \cup UNION {Elements(ListOf(Field(it, "stories"))) :
                  it \in Elements(RenderedIterations(backlog))}

\* the items of the checklist that follows the line of the heading: the
\* lines `- [ ] <item>` up to the first line that is none
RECURSIVE ChecklistFrom(_, _)
ChecklistFrom(lines, k) ==
  IF k > Len(lines) THEN <<>>
  ELSE IF lines[k] = <<>> THEN <<>>
  ELSE IF Head(lines[k]) /= "- [ ] " THEN <<>>
  ELSE <<Tail(lines[k])>> \o ChecklistFrom(lines, k + 1)

SectionItems(lines, heading) ==
  IF \E k \in 1..Len(lines) : lines[k] = <<heading>>
    THEN ChecklistFrom(lines,
           1 + CHOOSE k \in 1..Len(lines) :
                 lines[k] = <<heading>>
                 /\ \A j \in 1..(k - 1) : lines[j] /= <<heading>>)
    ELSE <<>>

TextsOf(list) == [i \in 1..Len(list) |-> list[i].s]

\* the file says of the story what formatUserStory is to say of it
RendersStory(text, story) ==
  LET lines == Lines(text)
      priority == Field(story, "priority")
      dependencies == ListOf(Field(story, "dependencies"))
      dependencyLines ==
        {k \in 1..Len(lines) :
           lines[k] /= <<>> /\ Head(lines[k]) = "**Dependencies:** "}
  IN /\ Includes(text, <<"- [ ] ">> \o Field(story, "description").s)
     /\ \E k \in 1..Len(lines) : lines[k] = <<"### Acceptance Criteria">>
     /\ \E k \in 1..Len(lines) : lines[k] = <<"### Technical Tasks">>
     /\ SectionItems(lines, "### Acceptance Criteria")
          = TextsOf(Field(story, "acceptance_criteria").a)
     /\ SectionItems(lines, "### Technical Tasks")
          = TextsOf(Field(story, "tasks").a)
     /\ (priority.t = "string" /\ priority.s /= <<>>) =>
          \E k \in 1..Len(lines) : lines[k] = <<"**Priority:** ">> \o priority.s
     /\ (dependencies /= <<>>) <=> (dependencyLines /= {})
     /\ \A k \in dependencyLines :
          lines[k] = <<"**Dependencies:** ">>
                       \o Join(TextsOf(dependencies), <<", ">>)

\* C32: every story file holds, for a story of the backlog, the description
\* as `- [ ] <description>`, under `### Acceptance Criteria` one line
\* `- [ ] <criterion>` per criterion and under `### Technical Tasks` one per
\* task, in the order of the story and neither fewer nor more, the line
\* `**Priority:** <priority>` when the story has a priority, and a line
\* `**Dependencies:** <ids joined by ', '>` exactly when its dependencies
\* are not empty
StoryFileRendersFields ==
  \A k \in StoryWrites :
    \E story \in AllStories(RenderedBacklog) :
      /\ ~formatUserStory(story).thrown
      /\ md.log[k].call.data = Markdown(formatUserStory(story).value)
      /\ RendersStory(md.log[k].call.data.chars, story)

StoryWithAllFieldsWritten ==
  \E k \in StoryWrites :
    \E story \in AllStories(RenderedBacklog) :
      /\ md.log[k].call.data = Markdown(formatUserStory(story).value)
      /\ Len(Field(story, "acceptance_criteria").a) = 2
      /\ Len(Field(story, "tasks").a) = 2
      /\ Len(ListOf(Field(story, "dependencies"))) = 2
      /\ Truthy(Field(story, "priority"))
      /\ md.pc = "resolved"
      /\ md.value = RenderSuccess

\* every call of fs-extra so far has returned
AllReturned == \A k \in 1..Len(md.log) : md.log[k].ok

RenderDone == md.pc \in {"resolved", "rejected"}

\* C33 as stated: a story file holds the heading
\* `# User Story <id>: <title>` and the instruction banner for AI
StoryFileHasHeadingAndBanner ==
  \A k \in StoryWrites :
    \E story \in AllStories(RenderedBacklog) :
      /\ md.log[k].call.data = Markdown(formatUserStory(story).value)
      /\ Includes(md.log[k].call.data.chars,
                  <<"# User Story ">> \o TemplateText(Field(story, "id"))
                    \o <<": ">> \o TemplateText(Field(story, "title")))
      /\ Includes(md.log[k].call.data.chars,
                  <<"User Story Instructions for AI">>)
      /\ Includes(md.log[k].call.data.chars,
                  <<"Mettez à jour le statut des tâches">>)
      /\ Includes(md.log[k].call.data.chars, <<"[ ] par [x]">>)

\* a story file starts with `## <id>: <title>` and holds no banner
StoryFileStartsWithPlainHeading ==
  \E k \in StoryWrites :
    /\ PathOf(k) = OutputDir \o << <<"mvp">>, <<"user-stories">>,
                                  <<"u", "s", "1", ".md">> >>
    /\ SubSeq(md.log[k].call.data.chars, 1, 6)
         = <<"## ", "U", "S", "1", ": ", "t">>

\* the forms of the backlog of the integration test
IsWrapperOf(backlogResult, backlog) ==
  backlogResult = JObj([success |-> JBool(TRUE), result |-> backlog])

\* C34 as stated: called with a backlog that is not wrapped (epics, mvp,
\* iterations at the top) or with {success: true, result: <backlog>}, the
\* renderer returns success: true once its directories and files are written
BothFormsAreAccepted ==
  (/\ RenderDone
   /\ AllReturned
   /\ \/ md.backlogResult \in UnwrappedBacklogs
      \/ \E b \in RenderBacklogs :
           /\ IsWrapperOf(md.backlogResult, b)
           /\ Truthy(resolveEpic(b))
           /\ \A story \in AllStories(b) : ~formatUserStory(story).thrown)
    => /\ md.pc = "resolved"
       /\ Field(md.value, "success") = JBool(TRUE)
       /\ Writes /= {}

\* the backlog that is not wrapped is answered with a rejected promise and
\* nothing is written
UnwrappedBacklogRejected ==
  /\ md.backlogResult \in UnwrappedBacklogs
  /\ md.backlogResult /= sampleBacklog
  /\ md.pc = "rejected"
  /\ md.log = <<>>
  /\ md.value = JObj([message |->
       JStr(<<"Cannot read properties of ", "undefined", " (reading 'message')">>)])

\* a result that reports failure and carries its error
IsFailureResult(v) ==
  /\ v.t = "object"
  /\ ~Truthy(Field(v, "success"))
  /\ Field(v, "error").t = "object"

\* C37: for a result with success = false the renderer returns
\* {success: false, error: <the error of the result>} and makes no
\* directory and writes no file; for every envelope of generateBacklog the
\* promise of the renderer is resolved with an object that has a boolean
\* success, never rejected
FailedGenerationIsNotRendered ==
  /\ (IsFailureResult(md.backlogResult) /\ md.pc /= "called") =>
       /\ md.pc = "resolved"
       /\ md.log = <<>>
       /\ md.value = JObj([success |-> JBool(FALSE),
                           error |-> Field(md.backlogResult, "error")])
  /\ md.backlogResult \in GeneratedEnvelopes =>
       /\ md.pc /= "rejected"
       /\ md.pc = "resolved" => Field(md.value, "success").t = "boolean"

ExhaustionEnvelopeReturned ==
  /\ md.backlogResult \in GeneratedEnvelopes
  /\ md.pc = "resolved"
  /\ md.log = <<>>
  /\ md.value = JObj([success |-> JBool(FALSE),
                      error |-> JObj([message |-> JStr(NoChoicesMessage)])])

\* the part of the tree a path lies in: the output directory itself, the
\* navigation file, the epic, the mvp, the iterations, the raw backlog
Phase(path) ==
  IF Len(path) <= Len(OutputDir) THEN 0
  ELSE LET first == path[Len(OutputDir) + 1]
       IN IF first = <<"README.md">> THEN 1
          ELSE IF first = <<"epics">> THEN 2
          ELSE IF first = <<"mvp">> THEN 3
          ELSE IF first = <<"iterations">> THEN 4
          ELSE 5

RawBacklogPath == Sub(OutputDir, <<"backlog.json">>)

\* C38: the files are written in the order navigation file, epic, mvp,
\* iterations, raw backlog; backlog.json is written after every other call
\* has returned and nothing is written after it; a call that throws is the
\* last one, the renderer then returns success: false, and what was written
\* before stays
FilesAreWrittenInOrder ==
  /\ [](/\ \A i, j \in 1..Len(md.log) :
             i < j => Phase(md.log[i].call.path) <= Phase(md.log[j].call.path)
        /\ Len(md.log) >= 1 => md.log[1].call = EnsureDir(OutputDir)
        /\ Len(md.log) >= 2 => md.log[2].call = NavigationFile
        /\ \A k \in 1..Len(md.log) :
             /\ md.log[k].call.path = RawBacklogPath =>
                  /\ k = Len(md.log)
                  /\ md.log[k].call.op = "writeFile"
                  /\ md.log[k].call.data = JsonText(RenderedBacklog)
                  /\ \A i \in 1..(k - 1) : md.log[i].ok
             /\ ~md.log[k].ok =>
                  /\ k = Len(md.log)
                  /\ md.pc = "resolved"
                  /\ md.value = CaughtFailure(FsError)
        /\ (md.pc = "resolved" /\ md.value = RenderSuccess) =>
             /\ AllReturned
             /\ md.log[Len(md.log)].call.path = RawBacklogPath)
  /\ [][/\ Len(md'.log) >= Len(md.log)
        /\ SubSeq(md'.log, 1, Len(md.log)) = md.log
        /\ md.pc \in {"resolved", "rejected"} => md' = md]_vars

IterationWriteFailed ==
  /\ md.pc = "resolved"
  /\ md.value = CaughtFailure(FsError)
  /\ Len(md.log) >= 2
  /\ ~md.log[Len(md.log)].ok
  /\ md.log[Len(md.log)].call.op = "writeFile"
  /\ Phase(md.log[Len(md.log)].call.path) = 4
  /\ \E k \in Writes : Phase(PathOf(k)) = 3
  /\ \E k \in Writes : Phase(PathOf(k)) = 2
  /\ \E k \in Writes : Phase(PathOf(k)) = 1

\* the epic the backlog names: its epic if it has one, else the first of
\* its epics
HasEpic(backlog) == Field(backlog, "epic").t = "object"
HasEpics(backlog) ==
  Field(backlog, "epics").t = "array" /\ Len(Field(backlog, "epics").a) > 0
NamedEpic(backlog) ==
  IF HasEpic(backlog) THEN backlog.f.epic ELSE backlog.f.epics.a[1]

EpicPath == OutputDir \o << <<"epics">>, <<"epic.md">> >>

\* C39: the epic file is made of epic when the backlog has one and else of
\* the first element of epics; a backlog with neither is answered
\* {success: false, error: {message: 'Backlog does not contain an epic'}},
\* and nothing but the navigation file is written for it
EpicIsEpicOrFirstOfEpics ==
  md.pc \in {"awaiting", "resolved"} /\ RenderedBacklog.t = "object" =>
    /\ \A k \in Writes :
         PathOf(k) = EpicPath =>
           /\ HasEpic(RenderedBacklog) \/ HasEpics(RenderedBacklog)
           /\ Includes(md.log[k].call.data.chars,
                       <<"# Epic: ">>
                         \o TemplateText(Field(NamedEpic(RenderedBacklog), "title"))
                         \o NL)
    /\ (HasEpic(RenderedBacklog) \/ HasEpics(RenderedBacklog))
         => md.value /= NoEpicFailure
    /\ ~(HasEpic(RenderedBacklog) \/ HasEpics(RenderedBacklog)) =>
         /\ \A k \in Writes : md.log[k].call = NavigationFile
         /\ \A k \in 1..Len(md.log) :
              md.log[k].call \in {EnsureDir(OutputDir), NavigationFile}
         /\ (md.pc = "resolved" /\ AllReturned) =>
              /\ md.value = NoEpicFailure
              /\ Writes = {2}

NoEpicOnlyNavigationWritten ==
  /\ md.pc = "resolved"
  /\ md.value = NoEpicFailure
  /\ Field(RenderedBacklog, "epics") = JArr(<<>>)
  /\ Field(RenderedBacklog, "mvp").t = "array"
  /\ Writes = {2}
  /\ md.log[2].call = NavigationFile

\* the slug a story file is named after
StorySlug(story) ==
  createSlug(IF Truthy(Field(story, "id")) THEN Field(story, "id")
             ELSE Field(story, "title")).value

MvpStoryDir == OutputDir \o << <<"mvp">>, <<"user-stories">> >>
IterationStoryDir(iteration) ==
  OutputDir \o << <<"iterations">>, createSlug(Field(iteration, "name")).value,
                  <<"user-stories">> >>

\* the lists of stories of a backlog, each with the directory of its files:
\* mvp, and the stories of each iteration
StoryLists(backlog) ==
  {[dir |-> MvpStoryDir, stories |-> MvpStories(backlog)]}
    \cup {[dir |-> IterationStoryDir(RenderedIterations(backlog)[i]),
           stories |-> ListOf(Field(RenderedIterations(backlog)[i], "stories")),
           position |-> i] :
            i \in 1..Len(RenderedIterations(backlog))}

\* the story files of a directory, and what a file holds: the data of the
\* last write to its path
StoryFilesIn(dir) ==
  {PathOf(k) : k \in {w \in StoryWrites : SubSeq(PathOf(w), 1, Len(PathOf(w)) - 1) = dir}}

FileData(path) ==
  md.log[CHOOSE k \in Writes :
           /\ PathOf(k) = path
           /\ \A w \in Writes : PathOf(w) = path => w <= k].call.data

\* the last story of the list that has the slug of story i
LastWithSlug(stories, i) ==
  stories[CHOOSE j \in 1..Len(stories) :
            /\ StorySlug(stories[j]) = StorySlug(stories[i])
            /\ \A h \in 1..Len(stories) :
                 StorySlug(stories[h]) = StorySlug(stories[i]) => h <= j]

\* C40 as stated: when all files are written, the directory of a list of
\* stories (mvp, or the stories of one iteration) holds one story file per
\* distinct slug of the ids of that list, each file holding the last story
\* of that list with the slug: stories of another list have not overwritten
\* it
StoryFilesKeyedBySlugPerList ==
  (md.pc = "resolved" /\ md.value = RenderSuccess) =>
    \A list \in StoryLists(RenderedBacklog) :
      /\ Cardinality(StoryFilesIn(list.dir))
           = Cardinality({StorySlug(list.stories[i]) : i \in 1..Len(list.stories)})
      /\ \A i \in 1..Len(list.stories) :
           FileData(Sub(list.dir, StorySlug(list.stories[i]) \o <<".md">>))
             = Markdown(formatUserStory(LastWithSlug(list.stories, i)).value)

\* two iterations of one name: the story of the second has overwritten the
\* story of the first
SameNamedIterationsShareOneFile ==
  /\ md.pc = "resolved"
  /\ md.value = RenderSuccess
  /\ Len(RenderedIterations(RenderedBacklog)) = 2
  /\ Field(RenderedIterations(RenderedBacklog)[1], "name") = JStr(<<"i">>)
  /\ Field(RenderedIterations(RenderedBacklog)[2], "name") = JStr(<<"i">>)
  /\ LET dir == OutputDir \o << <<"iterations">>, <<"i">>, <<"user-stories">> >>
         file == Sub(dir, <<"u", "s", "1", ".md">>)
     IN /\ StoryFilesIn(dir) = {file}
        /\ Cardinality({k \in StoryWrites : PathOf(k) = file}) = 2
        /\ FileData(file) = Markdown(formatUserStory(
             RenderStory(US(1), <<"i", "2">>)).value)

\* what holds instead: a directory holds one story file per distinct slug of
\* the stories of all the lists that share it, and mvp shares its directory
\* with no iteration
StoryFilesKeyedBySlugPerDirectory ==
  (md.pc = "resolved" /\ md.value = RenderSuccess) =>
    \A list \in StoryLists(RenderedBacklog) :
      /\ Cardinality(StoryFilesIn(list.dir))
           = Cardinality(UNION {
               {StorySlug(other.stories[i]) : i \in 1..Len(other.stories)} :
                 other \in {o \in StoryLists(RenderedBacklog) : o.dir = list.dir}})
      /\ list.dir = MvpStoryDir <=> "position" \notin DOMAIN list
====
